---- MODULE Spec2Model ----
(***************************************************************************)
(* hawkeye: the per-target Monitor (pkg/monitor/monitor.go) and the        *)
(* Manager that owns monitors, groups and the shared change channel        *)
(* (pkg/monitor/manager.go), with the content filters                      *)
(* (pkg/monitor/filters.go).                                               *)
(*                                                                         *)
(* Goroutines are modelled as tasks with a program counter; one action is  *)
(* one lock region or one blocking point of the Go code.  An unrecovered   *)
(* panic ends the process: it is recorded in fault and disables every      *)
(* action.                                                                 *)
(***************************************************************************)
EXTENDS Integers, Sequences, FiniteSets, TLC

\* ------------------------------------------------------------------ bounds
\* run goroutines (and forwarders) that may be spawned per monitor
MaxStarts == 2
\* check cycles a monitor used on its own may begin (caps checkCount)
MaxChecks == 3
\* check cycles a monitor of the manager may begin
MgrChecks == 2
\* largest configured RetryCount
MaxRetry == 1
\* run goroutines that may be spawned in all
MaxSpawns == 2
\* longest content made of the letters of Letters
MaxLen == 2

\* the URLs under observation; a monitor object is identified by its URL
URLs == {"a", "b"}
GroupNames == {"g", "h"}
Slots == 1..MaxStarts

\* ------------------------------------------------------------ byte strings
SP == 32
LF == 10
CR == 13
IsSpace(b) == b \in {SP, LF, CR, 9, 11, 12}

\* a slice that may be nil: Nil, or Some(bytes)
Nil == <<>>
Some(c) == <<c>>
Bytes(o) == o[1]

\* no comparator configured
NoFn == "nil"

\* response bodies the server may return
Bodies == {<<97>>, <<98, 98>>}

MethodHash == "MethodHash"
MethodLength == "MethodLength"
MethodCustom == "MethodCustom"

Min(a, b) == IF a < b THEN a ELSE b
Max(a, b) == IF a > b THEN a ELSE b

\* s[from+1 .. to] as Go's s[from:to]
Slice(s, from, to) == SubSeq(s, from + 1, to)

HasPrefixAt(s, i, pat) ==
  /\ i + Len(pat) - 1 <= Len(s)
  /\ \A j \in 1..Len(pat) : s[i + j - 1] = pat[j]

\* regexp.ReplaceAll for a literal, non-empty pattern: leftmost,
\* non-overlapping matches
RECURSIVE ReplaceFrom(_, _, _, _)
ReplaceFrom(s, i, pat, rep) ==
  IF i > Len(s) THEN <<>>
  ELSE IF HasPrefixAt(s, i, pat) THEN rep \o ReplaceFrom(s, i + Len(pat), pat, rep)
  ELSE <<s[i]>> \o ReplaceFrom(s, i + 1, pat, rep)

\* The patterns of the filters: a literal, non-empty text, or the pattern of
\* NewTimestampFilter,
\*   (\d{4}-\d{2}-\d{2}T\d{2}:\d{2}:\d{2}([+-]\d{2}:?\d{2}|Z))|
\*   (\d{4}\d{2}\d{2}\d{2}\d{2}[+-]\d{4})|(\d{10,13})
Literal(text) == [kind |-> "literal", text |-> text]
TimestampPattern == [kind |-> "timestamp"]

IsDigit(b) == b \in 48..57
DigitsAt(s, i, n) == i + n - 1 <= Len(s) /\ \A j \in i..(i + n - 1) : IsDigit(s[j])
ByteAt(s, i, b) == i <= Len(s) /\ s[i] = b
\* [+-]
SignAt(s, i) == ByteAt(s, i, 43) \/ ByteAt(s, i, 45)

\* \d{4}-\d{2}-\d{2}T\d{2}:\d{2}:\d{2} at s[i]
IsoAt(s, i) ==
  /\ DigitsAt(s, i, 4) /\ ByteAt(s, i + 4, 45)
  /\ DigitsAt(s, i + 5, 2) /\ ByteAt(s, i + 7, 45)
  /\ DigitsAt(s, i + 8, 2) /\ ByteAt(s, i + 10, 84)
  /\ DigitsAt(s, i + 11, 2) /\ ByteAt(s, i + 13, 58)
  /\ DigitsAt(s, i + 14, 2) /\ ByteAt(s, i + 16, 58)
  /\ DigitsAt(s, i + 17, 2)

\* the length ([+-]\d{2}:?\d{2}|Z) matches at s[i], or -1: the first
\* alternative before the second, the colon taken when it can be
ZoneLen(s, i) ==
  IF SignAt(s, i) /\ DigitsAt(s, i + 1, 2) /\ ByteAt(s, i + 3, 58) /\ DigitsAt(s, i + 4, 2) THEN 6
  ELSE IF SignAt(s, i) /\ DigitsAt(s, i + 1, 4) THEN 5
  ELSE IF ByteAt(s, i, 90) THEN 1
  ELSE -1

\* the digits of \d{10,13} at s[i]: as many as there are, up to 13
RECURSIVE DigitRun(_, _, _)
DigitRun(s, i, max) ==
  IF max = 0 \/ i > Len(s) \/ ~IsDigit(s[i]) THEN 0 ELSE 1 + DigitRun(s, i + 1, max - 1)

\* the length of the match of the pattern that starts at s[i], or -1:
\* leftmost-first, so an earlier alternative wins over a later one
MatchLen(pattern, s, i) ==
  IF pattern.kind = "literal"
  THEN IF HasPrefixAt(s, i, pattern.text) THEN Len(pattern.text) ELSE -1
  ELSE IF IsoAt(s, i) /\ ZoneLen(s, i + 19) > 0 THEN 19 + ZoneLen(s, i + 19)
  ELSE IF DigitsAt(s, i, 12) /\ SignAt(s, i + 12) /\ DigitsAt(s, i + 13, 4) THEN 17
  ELSE IF DigitRun(s, i, 13) >= 10 THEN DigitRun(s, i, 13)
  ELSE -1

\* regexp.ReplaceAll: the leftmost matches, one after the other, replaced
RECURSIVE ReplaceAll(_, _, _, _)
ReplaceAll(s, i, pattern, rep) ==
  IF i > Len(s) THEN <<>>
  ELSE IF MatchLen(pattern, s, i) > 0
       THEN rep \o ReplaceAll(s, i + MatchLen(pattern, s, i), pattern, rep)
  ELSE <<s[i]>> \o ReplaceAll(s, i + 1, pattern, rep)

RECURSIVE ReplaceFirst(_, _, _, _)
ReplaceFirst(s, i, pattern, rep) ==
  IF i > Len(s) THEN <<>>
  ELSE IF MatchLen(pattern, s, i) > 0
       THEN rep \o SubSeq(s, i + MatchLen(pattern, s, i), Len(s))
  ELSE <<s[i]>> \o ReplaceFirst(s, i + 1, pattern, rep)

RegexFilterApplyOnce(f, content) == ReplaceFirst(content, 1, f.pattern, f.replacement)

RegexFilterApply(f, content) == ReplaceAll(content, 1, f.pattern, f.replacement)

\* NewTimestampFilter: the replacement is "TIMESTAMP"
Sentinel == <<84, 73, 77, 69, 83, 84, 65, 77, 80>>
TimestampFilter == [pattern |-> TimestampPattern, replacement |-> Sentinel]

MonitorFiltersAsConfigured(ContentFilters, IgnoreTimestamps) == ContentFilters

\* NewMonitorWithConfig: the configured filters, then the timestamp filter
\* when IgnoreTimestamps is set
MonitorFilters(ContentFilters, IgnoreTimestamps) ==
  IF IgnoreTimestamps THEN Append(ContentFilters, TimestampFilter) ELSE ContentFilters

RECURSIVE ContentFilterListApplyBackwards(_, _)
ContentFilterListApplyBackwards(l, content) ==
  IF l = <<>> THEN content
  ELSE RegexFilterApply(Head(l), ContentFilterListApplyBackwards(Tail(l), content))

RECURSIVE ContentFilterListApply(_, _)
ContentFilterListApply(l, content) ==
  IF l = <<>> THEN content
  ELSE ContentFilterListApply(Tail(l), RegexFilterApply(Head(l), content))

\* strings.ReplaceAll(str, "\r\n", "\n") then strings.ReplaceAll(str, "\r", "\n")
UnifyLineEndings(s) == ReplaceFrom(ReplaceFrom(s, 1, <<CR, LF>>, <<LF>>), 1, <<CR>>, <<LF>>)

\* strings.Join(strings.Fields(str), " ")
RECURSIVE JoinFields(_, _, _)
JoinFields(s, i, started) ==
  IF i > Len(s) THEN <<>>
  ELSE IF IsSpace(s[i]) THEN JoinFields(s, i + 1, started)
  ELSE (IF started /\ i > 1 /\ IsSpace(s[i - 1]) THEN <<SP>> ELSE <<>>)
       \o <<s[i]>> \o JoinFields(s, i + 1, TRUE)

normalizeContent(cfg, content) ==
  IF Len(content) = 0 THEN content
  ELSE LET str == UnifyLineEndings(content)
       IN IF cfg.NormalizeWhitespace THEN JoinFields(str, 1, FALSE) ELSE str

\* sha256.Sum256: collision-free on the contents considered
calculateHash(content) == <<"sha256", content>>

ByteSliceEqual(a, b) ==
  IF Len(a) # Len(b) THEN FALSE
  ELSE \A i \in 1..Len(a) : a[i] = b[i]

ContextLen == 20

NoDiffFound == [kind |-> "nodiff"]

\* first index (0-based) below both lengths where the buffers differ, or -1
FirstDiff(old, new) ==
  LET D == {i \in 0..(Min(Len(old), Len(new)) - 1) : old[i + 1] # new[i + 1]}
  IN IF D = {} THEN -1 ELSE CHOOSE i \in D : \A j \in D : i <= j

findDifference(oldContent, newContent) ==
  LET d == FirstDiff(oldContent, newContent)
  IN IF d >= 0 \/ Len(oldContent) # Len(newContent)
     THEN LET diffPos == IF d < 0 THEN Min(Len(oldContent), Len(newContent)) ELSE d
              start == Max(diffPos - ContextLen, 0)
              oldEnd == Min(diffPos + ContextLen, Len(oldContent))
              newEnd == Min(diffPos + ContextLen, Len(newContent))
          IN [kind |-> "diff", pos |-> diffPos,
              old |-> Slice(oldContent, start, oldEnd),
              new |-> Slice(newContent, start, newEnd)]
     ELSE NoDiffFound

NoDetails == [kind |-> "empty"]

\* caller-supplied comparators used by the model
CustomCompare(fn, old, new) ==
  IF fn = "differ" THEN [changed |-> old # new, details |-> [kind |-> "custom"]]
  ELSE [changed |-> TRUE, details |-> [kind |-> "custom"]]

CompareFormSkippingNormalization(cfg, content) ==
  IF Len(cfg.filters) > 0 THEN ContentFilterListApply(cfg.filters, content) ELSE content

\* detectChange, lines 279-293: what is compared in place of a content:
\* the filters applied if there are any, then the normalization if configured
CompareForm(cfg, content) ==
  LET filtered == IF Len(cfg.filters) > 0 THEN ContentFilterListApply(cfg.filters, content)
                  ELSE content
  IN IF cfg.NormalizeWhitespace THEN normalizeContent(cfg, filtered) ELSE filtered

MethodChangedOnBytes(cfg, compareLast, compareContent) ==
  LET same == [changed |-> FALSE, details |-> NoDetails]
      diff == [changed |-> TRUE, details |-> findDifference(compareLast, compareContent)]
  IN CASE cfg.Method = MethodHash -> IF compareLast # compareContent THEN diff ELSE same
       [] cfg.Method = MethodLength -> IF compareLast # compareContent THEN diff ELSE same
       [] cfg.Method = MethodCustom ->
            IF cfg.CustomCompareFn # NoFn
            THEN CustomCompare(cfg.CustomCompareFn, compareLast, compareContent)
            ELSE same
       [] OTHER -> same

\* detectChange's switch on the method, lines 295-328: what it returns for
\* the two compared forms
MethodChanged(cfg, compareLast, compareContent) ==
  LET same == [changed |-> FALSE, details |-> NoDetails]
      diff == [changed |-> TRUE, details |-> findDifference(compareLast, compareContent)]
  IN CASE cfg.Method = MethodHash ->
            IF ~ByteSliceEqual(calculateHash(compareContent), calculateHash(compareLast))
            THEN diff ELSE same
       [] cfg.Method = MethodLength ->
            IF Len(compareLast) # Len(compareContent) THEN diff ELSE same
       [] cfg.Method = MethodCustom ->
            IF cfg.CustomCompareFn # NoFn
            THEN LET r == CustomCompare(cfg.CustomCompareFn, compareLast, compareContent)
                 IN IF r.changed THEN [changed |-> TRUE, details |-> r.details] ELSE same
            ELSE same
       [] OTHER -> same

detectChangeStoringCompared(cfg, lastC, content) ==
  IF lastC = Nil THEN [changed |-> FALSE, details |-> NoDetails, lastContent |-> Some(content)]
  ELSE LET r == MethodChanged(cfg, CompareForm(cfg, Bytes(lastC)), CompareForm(cfg, content))
       IN [changed |-> r.changed, details |-> r.details,
           lastContent |-> IF r.changed THEN Some(CompareForm(cfg, content)) ELSE lastC]

detectChangeFilteringNewOnly(cfg, lastC, content) ==
  IF lastC = Nil THEN [changed |-> FALSE, details |-> NoDetails, lastContent |-> Some(content)]
  ELSE LET r == MethodChanged(cfg, Bytes(lastC), CompareForm(cfg, content))
       IN [changed |-> r.changed, details |-> r.details,
           lastContent |-> IF r.changed THEN Some(content) ELSE lastC]

detectChangeFromFirst(cfg, lastC, content) ==
  LET r == MethodChanged(cfg, CompareForm(cfg, IF lastC = Nil THEN <<>> ELSE Bytes(lastC)),
                         CompareForm(cfg, content))
  IN [changed |-> r.changed, details |-> r.details,
      lastContent |-> IF r.changed \/ lastC = Nil THEN Some(content) ELSE lastC]

detectChangeStoringLatest(cfg, lastC, content) ==
  IF lastC = Nil THEN [changed |-> FALSE, details |-> NoDetails, lastContent |-> Some(content)]
  ELSE LET r == MethodChanged(cfg, CompareForm(cfg, Bytes(lastC)), CompareForm(cfg, content))
       IN [changed |-> r.changed, details |-> r.details, lastContent |-> Some(content)]

detectChangeForgettingFirst(cfg, lastC, content) ==
  IF lastC = Nil THEN [changed |-> FALSE, details |-> NoDetails, lastContent |-> Nil]
  ELSE LET r == MethodChanged(cfg, CompareForm(cfg, Bytes(lastC)), CompareForm(cfg, content))
       IN [changed |-> r.changed, details |-> r.details,
           lastContent |-> IF r.changed THEN Some(content) ELSE lastC]

\* Monitor.detectChange on a monitor whose lastContent is lastC: the result
\* and the lastContent stored afterwards
detectChange(cfg, lastC, content) ==
  IF lastC = Nil THEN [changed |-> FALSE, details |-> NoDetails, lastContent |-> Some(content)]
  ELSE LET r == MethodChanged(cfg, CompareForm(cfg, Bytes(lastC)), CompareForm(cfg, content))
       IN [changed |-> r.changed, details |-> r.details,
           lastContent |-> IF r.changed THEN Some(content) ELSE lastC]

\* ------------------------------------------------------------------- state
VARIABLES
  config,          \* Monitor.config, fixed at construction
  server,          \* per URL: what a GET can come to while the context is live
  ticks,           \* per URL: how many check cycles the run lets the monitor begin
  lastContent,     \* Monitor.lastContent (Nil until the first observation)
  isFirstCheck,    \* Monitor.isFirstCheck
  status,          \* Monitor.status ("" is Go's zero value)
  checkCount,      \* Monitor.checkCount
  ctxDone,         \* Monitor.ctx has been cancelled
  stopClosed,      \* Monitor.stop has been closed
  changesClosed,   \* Monitor.changes has been closed
  run,             \* the goroutines spawned by Monitor.Start, per monitor and slot
  observed,        \* history: has a successful observation (a detectChange call) been made?
  fwd,             \* the Manager.forwardChanges goroutines, per monitor and slot
  monitors,        \* Manager.monitors: the registered URLs
  groups,          \* Manager.groups: a map from the existing group names to their member URLs
  mgrCtxDone,      \* Manager.ctx has been cancelled
  changeChannelClosed, \* Manager.changeChannel has been closed
  stopping,        \* a Manager.Stop call is between cancel() and taking the lock
  delivered,       \* history: per URL, the cycle of the last event the application received
  fault,           \* "none", or the runtime panic that ended the process
  ret,             \* the result of the last manager call whose result the application kept
  locks,           \* who holds Manager.mu and each Monitor.mu, to write and to read
  tasks            \* per caller whose calls are followed statement by statement: its call and position

monVars == <<config, server, ticks, lastContent, isFirstCheck, status, checkCount,
             ctxDone, stopClosed, changesClosed, run, observed>>
mgrVars == <<fwd, monitors, groups, mgrCtxDone, changeChannelClosed, stopping>>
vars == <<monVars, mgrVars, delivered, fault, ret, locks, tasks>>

\* the zero value of Change, and the fields the model adds for the history:
\* cycle is the checkCount of the cycle that produced the event, obs tells
\* whether the URL had been observed successfully before that cycle's own
\* observation
ZeroChange ==
  [URL |-> "", HasChanged |-> FALSE, StatusCode |-> 0, ContentType |-> "",
   Error |-> "", Details |-> NoDetails, cycle |-> 0, obs |-> FALSE]

\* a goroutine slot that has not been spawned.  i, err, change, content,
\* changed and details are performCheck's locals; the rest is history:
\* the cycle's number, its fetch attempts and sleeps so far, whether an
\* observation was made before its own, the baseline and first-check flag it
\* started from, and whether the cycle before the select ended in failure
NoTask ==
  [pc |-> "none", i |-> 0, err |-> "", change |-> ZeroChange, content |-> Nil,
   changed |-> FALSE, details |-> NoDetails,
   cycle |-> 0, attempts |-> 0, sleeps |-> 0, obs |-> FALSE, base0 |-> Nil, first0 |-> TRUE,
   failed |-> FALSE]

NoForwarder == [pc |-> "none", change |-> ZeroChange]

Configs ==
  [URL : URLs, Interval : {1}, RetryCount : 0..MaxRetry, Method : {MethodHash, MethodLength},
   CustomCompareFn : {NoFn}, NormalizeWhitespace : {FALSE}, filters : {<<>>}]

\* outcomes of one HTTP GET: a transport error (also a body read error), a
\* status outside [200,300), or 200 with a body
TransportError == [kind |-> "transport", code |-> 0, body |-> <<>>]
BadStatus == [kind |-> "status", code |-> 500, body |-> <<>>]
Ok(b) == [kind |-> "ok", code |-> 200, body |-> b]
AllOutcomes == {TransportError, BadStatus} \cup {Ok(b) : b \in Bodies}

Alive == fault = "none"

Spawned(m) == {k \in Slots : run[m][k].pc # "none"}
HasFreeSlot(m) == \E k \in Slots : run[m][k].pc = "none"
FreeSlot(m) == CHOOSE k \in Slots : run[m][k].pc = "none" /\ \A j \in 1..(k - 1) : run[m][j].pc # "none"
HasFreeFwd(m) == \E k \in Slots : fwd[m][k].pc = "none"
FreeFwd(m) == CHOOSE k \in Slots : fwd[m][k].pc = "none" /\ \A j \in 1..(k - 1) : fwd[m][j].pc # "none"
RECURSIVE SpawnCount(_)
SpawnCount(S) ==
  IF S = {} THEN 0
  ELSE LET m == CHOOSE x \in S : TRUE IN Cardinality(Spawned(m)) + SpawnCount(S \ {m})

\* a group just created: MonitorGroup{Name, Description, Monitors}
NoGroup == [Description |-> "", Monitors |-> {}]

\* the goroutines of the application that call the manager side by side
Callers == {"c1", "c2"}

\* a caller that is in no call.  m, url and g are the call's arguments, err
\* and val what it returned, left the groups RemoveMonitor's loop has yet to
\* visit
NoCall ==
  [op |-> "", pc |-> "idle", m |-> "", url |-> "", g |-> "", err |-> "", val |-> {},
   left |-> {}]

\* the goroutines that take locks or block: a caller, run goroutine k of
\* monitor m, forwarder f of monitor m
Caller(t) == <<"caller", t, 0>>
Runner(m, k) == <<"run", m, k>>
Forwarder(m, f) == <<"forwardChanges", m, f>>

\* a sync.RWMutex nobody holds: w is the goroutine that holds it to write
\* (Nil: none), r the goroutines that hold it to read
NoHolder == [w |-> Nil, r |-> {}]
Unlocked == [mgr |-> NoHolder, mon |-> [m \in URLs |-> NoHolder]]

\* no manager call's result has been kept yet
NoRet == [op |-> "", err |-> "", val |-> <<>>]

\* the monitors and the manager as constructed, whatever the configurations
InitState(V, n) ==
  /\ server \in [URLs -> V]
  /\ ticks = [m \in URLs |-> n]
  /\ lastContent = [m \in URLs |-> Nil]
  /\ isFirstCheck = [m \in URLs |-> TRUE]
  /\ status = [m \in URLs |-> ""]
  /\ checkCount = [m \in URLs |-> 0]
  /\ ctxDone = [m \in URLs |-> FALSE]
  /\ stopClosed = [m \in URLs |-> FALSE]
  /\ changesClosed = [m \in URLs |-> FALSE]
  /\ run = [m \in URLs |-> [k \in Slots |-> NoTask]]
  /\ observed = [m \in URLs |-> FALSE]
  /\ fwd = [m \in URLs |-> [k \in Slots |-> NoForwarder]]
  /\ monitors = {}
  /\ groups = [g \in {} |-> NoGroup]
  /\ mgrCtxDone = FALSE
  /\ changeChannelClosed = FALSE
  /\ stopping = FALSE
  /\ delivered = [m \in URLs |-> 0]
  /\ fault = "none"
  /\ ret = NoRet
  /\ locks = Unlocked
  /\ tasks = [t \in Callers |-> NoCall]

\* NewMonitorWithConfig for every URL with a configuration of C, against
\* servers of V, for n check cycles, and NewManager
InitWith(C, V, n) ==
  /\ config \in {c \in [URLs -> C] : \A u \in URLs : c[u].URL = u}
  /\ InitState(V, n)

\* ------------------------------------------------------------- the monitor
\* go m.run(): the new goroutine is about to make the immediate first check
SpawnRun(r, m) == [r EXCEPT ![m][FreeSlot(m)] = [NoTask EXCEPT !.pc = "begin"]]

\* performCheck's first lock region: count the cycle, status "checking"
EnterCheck(m, k) ==
  /\ checkCount' = [checkCount EXCEPT ![m] = @ + 1]
  /\ status' = [status EXCEPT ![m] = "checking"]
  /\ run' = [run EXCEPT ![m][k] =
       [NoTask EXCEPT !.pc = "fetch", !.cycle = checkCount[m] + 1,
                      !.base0 = lastContent[m], !.first0 = isFirstCheck[m]]]
  /\ UNCHANGED <<ret, locks, tasks, config, server, ticks, lastContent, isFirstCheck, ctxDone, stopClosed,
                 changesClosed, observed, mgrVars, delivered, fault>>

\* run: the first check, made at once
BeginCheck(m, k) ==
  /\ Alive
  /\ run[m][k].pc = "begin"
  /\ EnterCheck(m, k)

\* run: the select takes a tick, and the next check begins
Tick(m, k) ==
  /\ Alive
  /\ run[m][k].pc = "select"
  /\ checkCount[m] < ticks[m]
  /\ EnterCheck(m, k)

\* a request on a cancelled context fails
Outcomes(m) == IF ctxDone[m] THEN {TransportError} ELSE server[m]

\* fetchContent's results for an outcome
fetchContent(m, o) ==
  IF o.kind = "transport"
  THEN [content |-> Nil, change |-> ZeroChange, err |-> "transport error"]
  ELSE LET change == [ZeroChange EXCEPT !.URL = config[m].URL, !.StatusCode = o.code,
                                        !.ContentType = "text/html"]
       IN IF o.code < 200 \/ o.code >= 300
          THEN [content |-> Nil, change |-> change, err |-> "unexpected status code"]
          ELSE [content |-> Some(o.body), change |-> change, err |-> ""]

ErrorChangeFlagged(m, err) ==
  [ZeroChange EXCEPT !.URL = config[m].URL, !.Error = err, !.HasChanged = TRUE]

\* the event built when the last attempt has failed
ErrorChange(m, err) == [ZeroChange EXCEPT !.URL = config[m].URL, !.Error = err]

RetryOnceMore(m, i) == i <= config[m].RetryCount

\* the retry loop's condition after pass i: is another pass made?
RetryAgain(m, i) == i + 1 <= config[m].RetryCount

AfterFetchSilent(m, k, o) ==
  LET t == [run[m][k] EXCEPT !.attempts = @ + 1]
      f == fetchContent(m, o)
  IN IF f.err = ""
     THEN [t EXCEPT !.pc = "detect", !.content = f.content, !.change = f.change]
     ELSE IF RetryAgain(m, t.i)
          THEN [t EXCEPT !.pc = "sleep", !.i = @ + 1]
          ELSE [NoTask EXCEPT !.pc = "select", !.failed = TRUE]

\* performCheck's locals after the pass of the retry loop in which the fetch
\* came to o (the sleep before a later pass is the Sleep action).  Locals
\* that are overwritten before they are read again are left out.
AfterFetch(m, k, o) ==
  LET t == [run[m][k] EXCEPT !.attempts = @ + 1]
      f == fetchContent(m, o)
  IN IF f.err = ""
     THEN [t EXCEPT !.pc = "detect", !.content = f.content, !.change = f.change]
     ELSE IF RetryAgain(m, t.i)
          THEN [t EXCEPT !.pc = "sleep", !.i = @ + 1]
          ELSE [t EXCEPT !.pc = "send", !.i = @ + 1, !.err = f.err,
                         !.change = [ErrorChange(m, f.err) EXCEPT !.cycle = t.cycle,
                                                                  !.obs = observed[m]]]

FetchLosingFlag(m, k, o) ==
  /\ Alive
  /\ run[m][k].pc = "fetch"
  /\ o \in Outcomes(m)
  /\ run' = [run EXCEPT ![m][k] = AfterFetch(m, k, o)]
  /\ isFirstCheck' = [isFirstCheck EXCEPT ![m] = @ /\ AfterFetch(m, k, o).pc # "send"]
  /\ UNCHANGED <<ret, locks, tasks, config, server, ticks, lastContent, status, checkCount, ctxDone,
                 stopClosed, changesClosed, observed, mgrVars, delivered, fault>>

\* one pass of the retry loop: the fetch and what the loop does with its result
Fetch(m, k, o) ==
  /\ Alive
  /\ run[m][k].pc = "fetch"
  /\ o \in Outcomes(m)
  /\ run' = [run EXCEPT ![m][k] = AfterFetch(m, k, o)]
  /\ UNCHANGED <<ret, locks, tasks, config, server, ticks, lastContent, isFirstCheck, status, checkCount,
                 ctxDone, stopClosed, changesClosed, observed, mgrVars, delivered, fault>>

\* time.Sleep(RetryInterval) before pass i > 0
Sleep(m, k) ==
  /\ Alive
  /\ run[m][k].pc = "sleep"
  /\ run' = [run EXCEPT ![m][k].pc = "fetch", ![m][k].sleeps = @ + 1]
  /\ UNCHANGED <<ret, locks, tasks, config, server, ticks, lastContent, isFirstCheck, status, checkCount, ctxDone,
                 stopClosed, changesClosed, observed, mgrVars, delivered, fault>>

\* m.detectChange(content), one lock region
DetectChange(m, k) ==
  /\ Alive
  /\ run[m][k].pc = "detect"
  /\ LET d == detectChange(config[m], lastContent[m], Bytes(run[m][k].content))
     IN /\ lastContent' = [lastContent EXCEPT ![m] = d.lastContent]
        /\ run' = [run EXCEPT ![m][k].pc = "finish", ![m][k].changed = d.changed,
                              ![m][k].details = d.details, ![m][k].obs = observed[m]]
  /\ observed' = [observed EXCEPT ![m] = TRUE]
  /\ UNCHANGED <<ret, locks, tasks, config, server, ticks, isFirstCheck, status, checkCount, ctxDone, stopClosed,
                 changesClosed, mgrVars, delivered, fault>>

ReportsFirst(isFirst, changed) == isFirst \/ changed

ReportsUnlessFirst(isFirst, changed) == ~isFirst

\* does a successful cycle hand an event to m.changes?
Reports(isFirst, changed) == ~isFirst /\ changed

\* performCheck's second lock region and what follows it
FinishCheck(m, k) ==
  /\ Alive
  /\ run[m][k].pc = "finish"
  /\ status' = [status EXCEPT ![m] = "idle"]
  /\ isFirstCheck' = [isFirstCheck EXCEPT ![m] = FALSE]
  /\ LET t == run[m][k]
     IN run' = [run EXCEPT ![m][k] =
          IF Reports(isFirstCheck[m], t.changed)
          THEN [t EXCEPT !.pc = "send",
                         !.change = [t.change EXCEPT !.HasChanged = TRUE, !.Details = t.details,
                                                     !.cycle = t.cycle, !.obs = t.obs]]
          ELSE [NoTask EXCEPT !.pc = "select"]]
  /\ UNCHANGED <<ret, locks, tasks, config, server, ticks, lastContent, checkCount, ctxDone, stopClosed, changesClosed,
                 observed, mgrVars, delivered, fault>>

\* m.changes <- change when the channel is closed: a panic
SendOnClosedChanges(m, k) ==
  /\ Alive
  /\ run[m][k].pc = "send"
  /\ changesClosed[m]
  /\ fault' = "send on closed changes"
  /\ UNCHANGED <<ret, locks, tasks, monVars, mgrVars, delivered>>

AfterSendQuits(t) ==
  [NoTask EXCEPT !.pc = (IF t.err # "" THEN "done" ELSE "select"), !.failed = (t.err # "")]

\* the run goroutine back in its loop after the send of its event was received
AfterSend(t) == [NoTask EXCEPT !.pc = "select", !.failed = (t.err # "")]

\* run: the select takes ctx.Done: return, and the deferred close(m.changes)
RunExit(m, k) ==
  /\ Alive
  /\ run[m][k].pc = "select"
  /\ ctxDone[m]
  /\ IF changesClosed[m]
     THEN /\ fault' = "close of closed changes"
          /\ UNCHANGED <<run, changesClosed>>
     ELSE /\ changesClosed' = [changesClosed EXCEPT ![m] = TRUE]
          /\ run' = [run EXCEPT ![m][k] = [NoTask EXCEPT !.pc = "done"]]
          /\ UNCHANGED fault
  /\ UNCHANGED <<ret, locks, tasks, config, server, ticks, lastContent, isFirstCheck, status, checkCount, ctxDone,
                 stopClosed, observed, mgrVars, delivered>>

\* monitor.Stop() for every monitor of S: cancel the context and close
\* m.stop; closing a stop channel that is already closed panics
StopEach(S) ==
  IF \E m \in S : stopClosed[m]
  THEN /\ fault' = "close of closed stop"
       /\ UNCHANGED <<ctxDone, stopClosed>>
  ELSE /\ ctxDone' = [m \in URLs |-> ctxDone[m] \/ m \in S]
       /\ stopClosed' = [m \in URLs |-> stopClosed[m] \/ m \in S]
       /\ UNCHANGED fault

\* ---------------------------------------------- a monitor used on its own
\* Monitor.Start by the application (once per monitor here)
MonitorStart(m) ==
  /\ Alive
  /\ Spawned(m) = {}
  /\ run' = SpawnRun(run, m)
  /\ UNCHANGED <<ret, locks, tasks, config, server, ticks, lastContent, isFirstCheck, status, checkCount, ctxDone,
                 stopClosed, changesClosed, observed, mgrVars, delivered, fault>>

\* Monitor.Stop by the application
MonitorStop(m) ==
  /\ Alive
  /\ StopEach({m})
  /\ UNCHANGED <<ret, locks, tasks, config, server, ticks, lastContent, isFirstCheck, status, checkCount,
                 changesClosed, run, observed, mgrVars, delivered>>

\* the application's loop over the channel Monitor.Start returned receives
\* the event run goroutine k is sending
CallerReceive(m, k) ==
  /\ Alive
  /\ run[m][k].pc = "send"
  /\ ~changesClosed[m]
  /\ delivered' = [delivered EXCEPT ![m] = run[m][k].change.cycle]
  /\ run' = [run EXCEPT ![m][k] = AfterSend(run[m][k])]
  /\ UNCHANGED <<ret, locks, tasks, config, server, ticks, lastContent, isFirstCheck, status, checkCount, ctxDone,
                 stopClosed, changesClosed, observed, mgrVars, fault>>

\* ---------------------------------------------------------- the forwarders
\* go m.forwardChanges(changes)
SpawnForwarder(f, m) == [f EXCEPT ![m][FreeFwd(m)] = [NoForwarder EXCEPT !.pc = "recv"]]

\* for change := range changes: the forwarder receives what run goroutine k sends
ForwarderReceive(m, f, k) ==
  /\ Alive
  /\ fwd[m][f].pc = "recv"
  /\ run[m][k].pc = "send"
  /\ ~changesClosed[m]
  /\ fwd' = [fwd EXCEPT ![m][f] = [pc |-> "select", change |-> run[m][k].change]]
  /\ run' = [run EXCEPT ![m][k] = AfterSend(run[m][k])]
  /\ UNCHANGED <<ret, locks, tasks, config, server, ticks, lastContent, isFirstCheck, status, checkCount, ctxDone,
                 stopClosed, changesClosed, observed, monitors, groups, mgrCtxDone,
                 changeChannelClosed, stopping, delivered, fault>>

\* the range loop ends when m.changes is closed
ForwarderEnd(m, f) ==
  /\ Alive
  /\ fwd[m][f].pc = "recv"
  /\ changesClosed[m]
  /\ fwd' = [fwd EXCEPT ![m][f].pc = "done"]
  /\ UNCHANGED <<ret, locks, tasks, monVars, monitors, groups, mgrCtxDone, changeChannelClosed, stopping,
                 delivered, fault>>

ForwarderSendEndsOnError(m, f) ==
  /\ Alive
  /\ fwd[m][f].pc = "select"
  /\ ~changeChannelClosed
  /\ delivered' = [delivered EXCEPT ![m] = fwd[m][f].change.cycle]
  /\ fwd' = [fwd EXCEPT ![m][f] =
       [NoForwarder EXCEPT !.pc = IF fwd[m][f].change.Error # "" THEN "done" ELSE "recv"]]
  /\ UNCHANGED <<ret, locks, tasks, monVars, monitors, groups, mgrCtxDone, changeChannelClosed, stopping, fault>>

\* select case m.changeChannel <- change, with the application receiving
ForwarderSend(m, f) ==
  /\ Alive
  /\ fwd[m][f].pc = "select"
  /\ ~changeChannelClosed
  /\ delivered' = [delivered EXCEPT ![m] = fwd[m][f].change.cycle]
  /\ fwd' = [fwd EXCEPT ![m][f] = [NoForwarder EXCEPT !.pc = "recv"]]
  /\ UNCHANGED <<ret, locks, tasks, monVars, monitors, groups, mgrCtxDone, changeChannelClosed, stopping, fault>>

\* select case m.changeChannel <- change on the closed channel: the case is
\* ready, and the send panics when the select picks it
ForwarderSendOnClosed(m, f) ==
  /\ Alive
  /\ fwd[m][f].pc = "select"
  /\ changeChannelClosed
  /\ fault' = "send on closed changeChannel"
  /\ UNCHANGED <<ret, locks, tasks, monVars, mgrVars, delivered>>

\* select case <-m.ctx.Done(): return
ForwarderCancelled(m, f) ==
  /\ Alive
  /\ fwd[m][f].pc = "select"
  /\ mgrCtxDone
  /\ fwd' = [fwd EXCEPT ![m][f] = [NoForwarder EXCEPT !.pc = "done"]]
  /\ UNCHANGED <<ret, locks, tasks, monVars, monitors, groups, mgrCtxDone, changeChannelClosed, stopping,
                 delivered, fault>>

\* -------------------------------------------------------------- the manager
\* The methods of the Manager, each as one step under its lock, in the case
\* the comment names.  They say nothing about ret: a specification either
\* leaves ret unchanged (the application drops the result) or uses the
\* Call operators below, which keep the result.  The monitor objects are the
\* elements of URLs; the registry maps config[m].URL to m, so monitors, the
\* set of registered objects, never holds two objects with one URL.
Lookup(url) == {m \in monitors : config[m].URL = url}

AddMonitorReplacing(m) ==
  /\ Alive
  /\ config[m].URL # ""
  /\ monitors' = (monitors \ Lookup(config[m].URL)) \cup {m}
  /\ UNCHANGED <<monVars, fwd, groups, mgrCtxDone, changeChannelClosed, stopping,
                 delivered, fault>>

\* AddMonitor of a monitor whose URL is not empty and not registered
AddMonitor(m) ==
  /\ Alive
  /\ config[m].URL # ""
  /\ Lookup(config[m].URL) = {}
  /\ monitors' = monitors \cup {m}
  /\ UNCHANGED <<monVars, fwd, groups, mgrCtxDone, changeChannelClosed, stopping,
                 delivered, fault>>

CreateGroupReplacing(g, d) ==
  /\ Alive
  /\ groups' = [x \in DOMAIN groups \cup {g} |->
                  IF x = g THEN [NoGroup EXCEPT !.Description = d] ELSE groups[x]]
  /\ UNCHANGED <<monVars, fwd, monitors, mgrCtxDone, changeChannelClosed, stopping,
                 delivered, fault>>

\* CreateGroup of a name that is not taken
CreateGroup(g, d) ==
  /\ Alive
  /\ g \notin DOMAIN groups
  /\ groups' = [x \in DOMAIN groups \cup {g} |->
                  IF x = g THEN [NoGroup EXCEPT !.Description = d] ELSE groups[x]]
  /\ UNCHANGED <<monVars, fwd, monitors, mgrCtxDone, changeChannelClosed, stopping,
                 delivered, fault>>

AddToGroupCreating(m, g) ==
  /\ Alive
  /\ m \in monitors
  /\ groups' = [x \in DOMAIN groups \cup {g} |->
                  IF x = g THEN [Description |-> IF g \in DOMAIN groups
                                                  THEN groups[g].Description ELSE "",
                                 Monitors |-> (IF g \in DOMAIN groups
                                                 THEN groups[g].Monitors ELSE {}) \cup {m}]
                  ELSE groups[x]]
  /\ UNCHANGED <<monVars, fwd, monitors, mgrCtxDone, changeChannelClosed, stopping,
                 delivered, fault>>

\* AddToGroup of a registered monitor and an existing group
AddToGroup(m, g) ==
  /\ Alive
  /\ m \in monitors
  /\ g \in DOMAIN groups
  /\ groups' = [groups EXCEPT ![g].Monitors = @ \cup {m}]
  /\ UNCHANGED <<monVars, fwd, monitors, mgrCtxDone, changeChannelClosed, stopping,
                 delivered, fault>>

\* monitor.Start() and go m.forwardChanges(changes) for every monitor of S
StartAll(S) ==
  /\ \A m \in S : HasFreeSlot(m) /\ HasFreeFwd(m)
  /\ SpawnCount(URLs) + Cardinality(S) <= MaxSpawns
  /\ run' = [m \in URLs |-> IF m \in S THEN SpawnRun(run, m)[m] ELSE run[m]]
  /\ fwd' = [m \in URLs |-> IF m \in S THEN SpawnForwarder(fwd, m)[m] ELSE fwd[m]]
  /\ UNCHANGED <<config, server, ticks, lastContent, isFirstCheck, status, checkCount, ctxDone,
                 stopClosed, changesClosed, observed, monitors, groups, mgrCtxDone,
                 changeChannelClosed, stopping, delivered, fault>>

Start ==
  /\ Alive
  /\ monitors # {}
  /\ StartAll(monitors)

StartMonitor(m) ==
  /\ Alive
  /\ m \in monitors
  /\ StartAll({m})

StartGroup(g) ==
  /\ Alive
  /\ g \in DOMAIN groups
  /\ StartAll(groups[g].Monitors)

StopMonitor(m) ==
  /\ Alive
  /\ m \in monitors
  /\ StopEach({m})
  /\ UNCHANGED <<config, server, ticks, lastContent, isFirstCheck, status, checkCount,
                 changesClosed, run, observed, mgrVars, delivered>>

StopGroup(g) ==
  /\ Alive
  /\ g \in DOMAIN groups
  /\ StopEach(groups[g].Monitors)
  /\ UNCHANGED <<config, server, ticks, lastContent, isFirstCheck, status, checkCount,
                 changesClosed, run, observed, mgrVars, delivered>>

RemoveMonitorKeepingMembers(m) ==
  /\ Alive
  /\ m \in monitors
  /\ StopEach({m})
  /\ IF stopClosed[m]
     THEN UNCHANGED <<monitors, groups>>
     ELSE /\ monitors' = monitors \ {m}
          /\ UNCHANGED groups
  /\ UNCHANGED <<config, server, ticks, lastContent, isFirstCheck, status, checkCount,
                 changesClosed, run, observed, fwd, mgrCtxDone, changeChannelClosed,
                 stopping, delivered>>

\* RemoveMonitor: stop the monitor, delete it from every group and from the
\* registry
RemoveMonitor(m) ==
  /\ Alive
  /\ m \in monitors
  /\ StopEach({m})
  /\ IF stopClosed[m]
     THEN UNCHANGED <<monitors, groups>>
     ELSE /\ monitors' = monitors \ {m}
          /\ groups' = [g \in DOMAIN groups |-> [groups[g] EXCEPT !.Monitors = @ \ {m}]]
  /\ UNCHANGED <<config, server, ticks, lastContent, isFirstCheck, status, checkCount,
                 changesClosed, run, observed, fwd, mgrCtxDone, changeChannelClosed,
                 stopping, delivered>>

\* Manager.Stop, first statement: m.cancel(), before the lock is taken
StopCancel ==
  /\ Alive
  /\ ~stopping
  /\ mgrCtxDone' = TRUE
  /\ stopping' = TRUE
  /\ UNCHANGED <<ret, locks, tasks, monVars, fwd, monitors, groups, changeChannelClosed, delivered, fault>>

\* Manager.Stop under the lock: stop every registered monitor, then
\* close(m.changeChannel); a second close panics
StopLocked ==
  /\ Alive
  /\ stopping
  /\ stopping' = FALSE
  /\ IF (\E m \in monitors : stopClosed[m]) \/ changeChannelClosed
     THEN /\ fault' = (IF changeChannelClosed THEN "close of closed changeChannel" ELSE "close of closed stop")
          /\ UNCHANGED <<ctxDone, stopClosed, changeChannelClosed>>
     ELSE /\ StopEach(monitors)
          /\ changeChannelClosed' = TRUE
  /\ UNCHANGED <<ret, locks, tasks, config, server, ticks, lastContent, isFirstCheck, status, checkCount,
                 changesClosed, run, observed, fwd, monitors, groups, mgrCtxDone, delivered>>

\* ----------------------------------------------------------- specifications
\* one check cycle of run goroutine k of monitor m, without retries
CheckStep(m, k) ==
  \/ BeginCheck(m, k)
  \/ \E o \in AllOutcomes : Fetch(m, k, o)
  \/ DetectChange(m, k)
  \/ FinishCheck(m, k)
  \/ Tick(m, k)
  \/ RunExit(m, k)

ForwarderStep(m, f) ==
  \/ \E k \in Slots : ForwarderReceive(m, f, k)
  \/ ForwarderEnd(m, f)
  \/ ForwarderSend(m, f)
  \/ ForwarderSendOnClosed(m, f)
  \/ ForwarderCancelled(m, f)

\* The application's calls on the manager, their results dropped.  The
\* registry is built before the first monitor is started, and a monitor that
\* was stopped is not registered again.
ManagerCall ==
  \/ \E m \in URLs : SpawnCount(URLs) = 0 /\ ~stopClosed[m] /\ AddMonitor(m) /\ UNCHANGED <<ret, locks, tasks>>
  \/ \E m \in URLs : RemoveMonitor(m) /\ UNCHANGED <<ret, locks, tasks>>
  \/ Start /\ UNCHANGED <<ret, locks, tasks>>
  \/ \E m \in URLs : StartMonitor(m) /\ UNCHANGED <<ret, locks, tasks>>
  \/ \E m \in URLs : StopMonitor(m) /\ UNCHANGED <<ret, locks, tasks>>
  \/ StopCancel
  \/ StopLocked

\* The manager with its monitors and forwarders.  The monitors are
\* configured without retries, and each server fails or returns one body.
MgrConfigs == {c \in Configs : c.RetryCount = 0 /\ c.Method = MethodHash}
MgrServers == {{BadStatus, Ok(<<97>>)}}
Init == InitWith(MgrConfigs, MgrServers, MgrChecks)

Next ==
  \/ ManagerCall
  \/ \E m \in URLs, k \in Slots : CheckStep(m, k) \/ SendOnClosedChanges(m, k)
  \/ \E m \in URLs, f \in Slots : ForwarderStep(m, f)

Spec == Init /\ [][Next]_vars

\* Scheduling: every goroutine that can take a step eventually takes one; a
\* select whose cancellation case is ready again and again eventually takes
\* it; a Manager.Stop call that has cancelled goes on to take the lock.
\* Nothing obliges the application to receive from a channel.
RunFair(m, k) ==
  /\ WF_vars(BeginCheck(m, k))
  /\ WF_vars(\E o \in AllOutcomes : Fetch(m, k, o))
  /\ WF_vars(Sleep(m, k))
  /\ WF_vars(DetectChange(m, k))
  /\ WF_vars(FinishCheck(m, k))
  /\ WF_vars(SendOnClosedChanges(m, k))
  /\ SF_vars(RunExit(m, k))

ForwarderFair(m, f) ==
  /\ WF_vars(\E k \in Slots : ForwarderReceive(m, f, k))
  /\ WF_vars(ForwarderEnd(m, f))
  /\ SF_vars(ForwarderCancelled(m, f) \/ ForwarderSendOnClosed(m, f))

\* The application registers monitors, starts them all and stops them all.
NextStop ==
  \/ \E m \in URLs : SpawnCount(URLs) = 0 /\ ~stopClosed[m] /\ AddMonitor(m) /\ UNCHANGED <<ret, locks, tasks>>
  \/ Start /\ UNCHANGED <<ret, locks, tasks>>
  \/ StopCancel
  \/ StopLocked
  \/ \E m \in URLs, k \in Slots : CheckStep(m, k) \/ SendOnClosedChanges(m, k)
  \/ \E m \in URLs, f \in Slots : ForwarderStep(m, f)

FairSpec ==
  /\ Init /\ [][NextStop]_vars
  /\ WF_vars(StopLocked)
  /\ \A m \in URLs, k \in Slots : RunFair(m, k) /\ ForwarderFair(m, k)

\* One monitor used through Monitor.Start and Monitor.Stop, with every
\* retry count and every server behaviour.
Direct == {"a"}
InitMon ==
  /\ InitWith(Configs, {AllOutcomes}, MaxChecks)
  /\ \A u \in URLs \ Direct : config[u] \in MgrConfigs

NextMon ==
  \E m \in Direct :
    \/ MonitorStart(m)
    \/ MonitorStop(m)
    \/ \E k \in Slots : CheckStep(m, k) \/ Sleep(m, k) \/ CallerReceive(m, k)

SpecMon == InitMon /\ [][NextMon]_vars

\* The ticker of a monitor that is running keeps ticking.
FairMon ==
  /\ SpecMon
  /\ \A m \in Direct, k \in Slots : RunFair(m, k) /\ WF_vars(Tick(m, k))

\* The application registers monitors, starts them all once, never stops
\* anything and keeps receiving from the shared channel.  Every fetch of
\* monitor "a" fails; those of "b" all fail or all succeed.
Failing == {TransportError, BadStatus}
FeedServers == {Failing, {Ok(b) : b \in Bodies}}
InitFeed ==
  /\ InitWith(MgrConfigs, FeedServers, MgrChecks)
  /\ server["a"] = Failing

NextFeed ==
  \/ \E m \in URLs : SpawnCount(URLs) = 0 /\ AddMonitor(m) /\ UNCHANGED <<ret, locks, tasks>>
  \/ SpawnCount(URLs) = 0 /\ Start /\ UNCHANGED <<ret, locks, tasks>>
  \/ \E m \in URLs, k \in Slots :
       \/ BeginCheck(m, k)
       \/ \E o \in AllOutcomes : Fetch(m, k, o)
       \/ DetectChange(m, k)
       \/ FinishCheck(m, k)
       \/ Tick(m, k)
  \/ \E m \in URLs, f \in Slots :
       \/ \E k \in Slots : ForwarderReceive(m, f, k)
       \/ ForwarderSend(m, f)

\* Scheduling: a run goroutine that can go on with its cycle does, and so
\* does a forwarder that can receive from its monitor or, the application
\* receiving, send on the shared channel.
FeedFair(m, k) ==
  /\ WF_vars(\/ BeginCheck(m, k)
             \/ \E o \in AllOutcomes : Fetch(m, k, o)
             \/ DetectChange(m, k)
             \/ FinishCheck(m, k))
  /\ WF_vars(\/ \E j \in Slots : ForwarderReceive(m, k, j)
             \/ ForwarderSend(m, k))

FairFeed ==
  /\ InitFeed /\ [][NextFeed]_vars
  /\ \A m \in URLs, k \in Slots : FeedFair(m, k)

\* The application registers monitors, starts them, stops single monitors,
\* never calls Manager.Stop and keeps receiving from the shared channel.
NextFan ==
  \/ \E m \in URLs : SpawnCount(URLs) = 0 /\ ~stopClosed[m] /\ AddMonitor(m) /\ UNCHANGED <<ret, locks, tasks>>
  \/ Start /\ UNCHANGED <<ret, locks, tasks>>
  \/ \E m \in URLs : ~stopClosed[m] /\ StopMonitor(m) /\ UNCHANGED <<ret, locks, tasks>>
  \/ \E m \in URLs, k \in Slots : CheckStep(m, k) \/ SendOnClosedChanges(m, k)
  \/ \E m \in URLs, f \in Slots :
       \/ \E k \in Slots : ForwarderReceive(m, f, k)
       \/ ForwarderEnd(m, f)
       \/ ForwarderSend(m, f)

\* Scheduling: every goroutine that can take a step eventually takes one,
\* and the application receives what a forwarder sends.
FanFair(m, k) ==
  /\ WF_vars(CheckStep(m, k) \/ SendOnClosedChanges(m, k))
  /\ WF_vars(\/ \E j \in Slots : ForwarderReceive(m, k, j)
             \/ ForwarderEnd(m, k)
             \/ ForwarderSend(m, k))

FairFan ==
  /\ Init /\ [][NextFan]_vars
  /\ \A m \in URLs, k \in Slots : FanFair(m, k)

\* ------------------------------------------------- the registry's calls
\* A call that returns an error, and a read: nothing but ret changes.
Ret(op, err, val) == [op |-> op, err |-> err, val |-> val]

FailSilently(op, err) ==
  /\ Alive
  /\ ret' = Ret(op, "", <<>>)
  /\ UNCHANGED <<monVars, mgrVars, delivered, fault, locks, tasks>>

Fail(op, err) ==
  /\ Alive
  /\ ret' = Ret(op, err, <<>>)
  /\ UNCHANGED <<monVars, mgrVars, delivered, fault, locks, tasks>>

Read(op, val) ==
  /\ Alive
  /\ ret' = Ret(op, "", val)
  /\ UNCHANGED <<monVars, mgrVars, delivered, fault, locks, tasks>>

\* the result that is kept when the call's step returns: a call that
\* panicked returns nothing
Kept(op, val) ==
  /\ ret' = (IF fault' = "none" THEN Ret(op, "", val) ELSE ret)
  /\ UNCHANGED <<locks, tasks>>

ErrURLEmpty == "URL cannot be empty"
ErrInvalidInterval == "interval must be greater than zero"
ErrExists == "monitor already exists"
ErrNoMonitor == "no monitor found"
ErrGroupExists == "group already exists"
ErrNoGroup == "group does not exist"

\* Manager.AddMonitor(monitor) with the monitor object m
CallAddMonitor(m) ==
  \/ config[m].URL = "" /\ Fail("AddMonitor", ErrURLEmpty)
  \/ config[m].URL # "" /\ Lookup(config[m].URL) # {} /\ Fail("AddMonitor", ErrExists)
  \/ AddMonitor(m) /\ Kept("AddMonitor", <<>>)

\* an object NewMonitorWithConfig has yet to return
Fresh(m) == m \notin monitors /\ ~ctxDone[m] /\ ~stopClosed[m] /\ Spawned(m) = {}

\* Manager.AddMonitorWithConfig(config), where m is the object that
\* NewMonitorWithConfig(config) makes
CallAddMonitorWithConfig(m) ==
  /\ Fresh(m)
  /\ \/ config[m].URL = "" /\ Fail("AddMonitorWithConfig", ErrURLEmpty)
     \/ config[m].URL # "" /\ config[m].Interval <= 0
          /\ Fail("AddMonitorWithConfig", ErrInvalidInterval)
     \/ config[m].URL # "" /\ config[m].Interval > 0 /\ Lookup(config[m].URL) # {}
          /\ Fail("AddMonitorWithConfig", ErrExists)
     \/ config[m].Interval > 0 /\ AddMonitor(m) /\ Kept("AddMonitorWithConfig", <<m>>)

CallRemoveMonitor(url) ==
  \/ Lookup(url) = {} /\ Fail("RemoveMonitor", ErrNoMonitor)
  \/ \E m \in Lookup(url) : RemoveMonitor(m) /\ Kept("RemoveMonitor", <<>>)

CallCreateGroup(g, d) ==
  \/ g \in DOMAIN groups /\ Fail("CreateGroup", ErrGroupExists)
  \/ CreateGroup(g, d) /\ Kept("CreateGroup", <<g>>)

CallAddToGroup(url, g) ==
  \/ Lookup(url) = {} /\ Fail("AddToGroup", ErrNoMonitor)
  \/ Lookup(url) # {} /\ g \notin DOMAIN groups /\ Fail("AddToGroup", ErrNoGroup)
  \/ \E m \in Lookup(url) : AddToGroup(m, g) /\ Kept("AddToGroup", <<>>)

CallGetMonitor(url) ==
  \/ Lookup(url) = {} /\ Fail("GetMonitor", ErrNoMonitor)
  \/ \E m \in Lookup(url) : Read("GetMonitor", <<m>>)

CallGetGroup(g) ==
  \/ g \notin DOMAIN groups /\ Fail("GetGroup", ErrNoGroup)
  \/ g \in DOMAIN groups /\ Read("GetGroup", <<g>>)

CallStartMonitor(url) ==
  \/ Lookup(url) = {} /\ Fail("StartMonitor", ErrNoMonitor)
  \/ \E m \in Lookup(url) : StartMonitor(m) /\ Kept("StartMonitor", <<>>)

CallStartGroup(g) ==
  \/ g \notin DOMAIN groups /\ Fail("StartGroup", ErrNoGroup)
  \/ StartGroup(g) /\ Kept("StartGroup", <<>>)

CallStopMonitor(url) ==
  \/ Lookup(url) = {} /\ Fail("StopMonitor", ErrNoMonitor)
  \/ \E m \in Lookup(url) : StopMonitor(m) /\ Kept("StopMonitor", <<>>)

CallStopGroup(g) ==
  \/ g \notin DOMAIN groups /\ Fail("StopGroup", ErrNoGroup)
  \/ StopGroup(g) /\ Kept("StopGroup", <<>>)

\* The registry used by an application that keeps every result: monitor
\* objects with empty and equal URLs and with intervals that are not
\* positive, and calls with URLs and group names that may be unknown.
\* The two objects have at most one such defect between them, and the
\* application starts monitors while none is running.
RegKeys == {"", "a", "b"}
CallKeys == {"a", "b"}
Intervals == {0, 1}
Descriptions == {"d1", "d2"}
RegConfigs == {[c EXCEPT !.URL = u, !.Interval = i] : c \in MgrConfigs, u \in RegKeys, i \in Intervals}

InitReg ==
  /\ config \in {c \in [URLs -> RegConfigs] :
                   /\ c["a"].URL \in {"", "a"} /\ c["a"].Interval > 0
                   /\ c["b"].URL \in {"a", "b"}
                   /\ (c["a"].URL = "" => c["b"].URL = "b" /\ c["b"].Interval > 0)
                   /\ (c["b"].URL = "a" => c["b"].Interval > 0)}
  /\ InitState(MgrServers, MgrChecks)

NextReg ==
  \/ \E m \in URLs : CallAddMonitor(m)
  \/ \E m \in URLs : CallAddMonitorWithConfig(m)
  \/ \E url \in CallKeys : CallRemoveMonitor(url)
  \/ \E g \in GroupNames, d \in Descriptions : CallCreateGroup(g, d)
  \/ \E url \in CallKeys, g \in GroupNames : CallAddToGroup(url, g)
  \/ \E url \in CallKeys : CallGetMonitor(url)
  \/ \E g \in GroupNames : CallGetGroup(g)
  \/ \E url \in CallKeys : SpawnCount(URLs) = 0 /\ CallStartMonitor(url)
  \/ \E g \in GroupNames : SpawnCount(URLs) = 0 /\ CallStartGroup(g)
  \/ \E url \in CallKeys : CallStopMonitor(url)
  \/ \E g \in GroupNames : CallStopGroup(g)

SpecReg == InitReg /\ [][NextReg]_vars

\* ------------------------------------------------------ change detection
\* Monitor.detectChange and ContentFilterList.Apply called directly on
\* monitor "a", as the package's tests call them, with every method,
\* comparator, normalization setting and several filter lists, on short
\* contents and on contents with timestamps.
\* 'a' and the space
Letters == {97, SP}
RECURSIVE SeqsUpTo(_, _)
SeqsUpTo(S, n) ==
  IF n = 0 THEN {<<>>}
  ELSE LET R == SeqsUpTo(S, n - 1) IN R \cup {Append(r, x) : r \in R, x \in S}

\* "2023-04-15T14:32:17Z" and "2023-04-15T15:00:00Z"
Stamp1 == <<50, 48, 50, 51, 45, 48, 52, 45, 49, 53, 84, 49, 52, 58, 51, 50, 58, 49, 55, 90>>
Stamp2 == <<50, 48, 50, 51, 45, 48, 52, 45, 49, 53, 84, 49, 53, 58, 48, 48, 58, 48, 48, 90>>
\* "1700000000"
Epoch == <<49, 55, 48, 48, 48, 48, 48, 48, 48, 48>>
StampContents ==
  {Stamp1, Stamp2, <<97>> \o Stamp1, <<98>> \o Stamp1, <<97>> \o Stamp2, Epoch, Sentinel}

\* "a\r\na" and "a\na"
PlainContents == SeqsUpTo(Letters, MaxLen) \cup {<<97, CR, LF, 97>>, <<97, LF, 97>>}

\* the contents a monitor with configuration cfg is called with: those with
\* timestamps when it ignores timestamps or has nothing but the Hash method
DetContents(cfg) ==
  IF cfg.IgnoreTimestamps
       \/ (cfg.Method = MethodHash /\ cfg.ContentFilters = <<>> /\ ~cfg.NormalizeWhitespace)
  THEN StampContents \cup {<<>>, <<97>>}
  ELSE PlainContents

\* filters a caller can make with NewRegexFilter: "a" replaced by "xx", by
\* "aa" and by nothing,
Widen == [pattern |-> Literal(<<97>>), replacement |-> <<120, 120>>]
Double == [pattern |-> Literal(<<97>>), replacement |-> <<97, 97>>]
Drop == [pattern |-> Literal(<<97>>), replacement |-> <<>>]
\* and a filter that takes the spaces out
Strip == [pattern |-> Literal(<<SP>>), replacement |-> <<>>]
FilterLists == {<<>>, <<Widen>>, <<Double>>, <<Drop, Widen>>, <<Strip>>}

DetConfigs ==
  {[URL |-> "a", Interval |-> 1, RetryCount |-> 0, Method |-> me, CustomCompareFn |-> fn,
    NormalizeWhitespace |-> nw, ContentFilters |-> fl, IgnoreTimestamps |-> it,
    filters |-> MonitorFilters(fl, it)] :
     me \in {MethodHash, MethodLength, MethodCustom}, fn \in {NoFn, "differ", "always"},
     nw \in BOOLEAN, fl \in FilterLists, it \in BOOLEAN}

InitDet ==
  /\ config \in {c \in [URLs -> DetConfigs \cup MgrConfigs] :
                   /\ c["a"] \in DetConfigs /\ c["b"] \in MgrConfigs /\ c["b"].URL = "b"
                   /\ (c["a"].Method # MethodCustom => c["a"].CustomCompareFn = NoFn)
                   /\ (c["a"].IgnoreTimestamps => c["a"].ContentFilters = <<>>)}
  /\ InitState(MgrServers, MgrChecks)

\* m.detectChange(content): ret keeps the content, the baseline the call
\* found and what the call returned
CallDetectChange(m, content) ==
  LET r == detectChange(config[m], lastContent[m], content)
  IN /\ Alive
     /\ lastContent' = [lastContent EXCEPT ![m] = r.lastContent]
     /\ ret' = Ret("detectChange", "",
                    <<[content |-> content, baseline |-> lastContent[m],
                       changed |-> r.changed, details |-> r.details]>>)
     /\ UNCHANGED <<config, server, ticks, isFirstCheck, status, checkCount, ctxDone,
                    stopClosed, changesClosed, run, observed, mgrVars, delivered, fault,
                    locks, tasks>>

\* m.filters.Apply(content): ret keeps the content and the result
CallFiltersApply(m, content) ==
  /\ Alive
  /\ ret' = Ret("Apply", "", <<content, ContentFilterListApply(config[m].filters, content)>>)
  /\ UNCHANGED <<monVars, mgrVars, delivered, fault, locks, tasks>>

\* detectChange called again and again; the filters of a new monitor
\* applied to a content, and applied again to what they returned
NextDet ==
  \/ \E content \in DetContents(config["a"]) : CallDetectChange("a", content)
  \/ \E content \in DetContents(config["a"]) :
       lastContent["a"] = Nil /\ CallFiltersApply("a", content)
  \/ /\ lastContent["a"] = Nil /\ ret.op = "Apply" /\ ret.val[1] \in DetContents(config["a"])
     /\ CallFiltersApply("a", ret.val[2])

SpecDet == InitDet /\ [][NextDet]_vars

\* ------------------------------------------- the manager's calls in steps
\* The calls of the registry statement by statement, for callers that run
\* side by side: Lock or RLock, the statements under the lock, and the
\* deferred Unlock or RUnlock.
CanLockAlways(mu, t) == TRUE

CanLock(mu, t) == mu.w = Nil /\ mu.r = {}
CanRLock(mu, t) == mu.w = Nil
Lock(mu, t) == [mu EXCEPT !.w = t]
Unlock(mu, t) == [mu EXCEPT !.w = Nil]
RLock(mu, t) == [mu EXCEPT !.r = @ \cup {t}]
RUnlock(mu, t) == [mu EXCEPT !.r = @ \ {t}]

\* the caller is between calls
Free(t) == tasks[t].pc \in {"idle", "done"}

\* the call's record when it begins, and when it has returned
Begun(op, m, url, g, pc) == [NoCall EXCEPT !.op = op, !.m = m, !.url = url, !.g = g, !.pc = pc]
Returned(c, err, val) == [c EXCEPT !.pc = "done", !.err = err, !.val = val, !.left = {}]

\* what a step of the registry's calls leaves alone
RegFrame == <<config, server, ticks, lastContent, isFirstCheck, status, checkCount, changesClosed,
              run, observed, fwd, mgrCtxDone, changeChannelClosed, stopping, delivered, ret>>

\* m.mu.Lock() of a mutating call that begins with it
LockManager(t, op, m, url, g, pc) ==
  /\ Alive
  /\ Free(t)
  /\ CanLock(locks.mgr, Caller(t))
  /\ locks' = [locks EXCEPT !.mgr = Lock(@, Caller(t))]
  /\ tasks' = [tasks EXCEPT ![t] = Begun(op, m, url, g, pc)]
  /\ UNCHANGED <<RegFrame, monitors, groups, ctxDone, stopClosed, fault>>

\* m.mu.RLock() of a read
RLockManager(t, op, url, g) ==
  /\ Alive
  /\ Free(t)
  /\ CanRLock(locks.mgr, Caller(t))
  /\ locks' = [locks EXCEPT !.mgr = RLock(@, Caller(t))]
  /\ tasks' = [tasks EXCEPT ![t] = Begun(op, "", url, g, "read")]
  /\ UNCHANGED <<RegFrame, monitors, groups, ctxDone, stopClosed, fault>>

\* AddMonitorWithConfig before it calls AddMonitor: the checks of the
\* configuration, without the lock, and NewMonitorWithConfig, which makes m
ValidateConfig(t, m) ==
  /\ Alive
  /\ Free(t)
  /\ tasks' = [tasks EXCEPT ![t] =
       LET c == Begun("AddMonitorWithConfig", m, config[m].URL, "", "add")
       IN IF config[m].URL = "" THEN Returned(c, ErrURLEmpty, {})
          ELSE IF config[m].Interval <= 0 THEN Returned(c, ErrInvalidInterval, {})
          ELSE c]
  /\ UNCHANGED <<RegFrame, monitors, groups, ctxDone, stopClosed, fault, locks>>

\* m.mu.Lock() of the AddMonitor that AddMonitorWithConfig calls
LockAfterValidate(t) ==
  /\ Alive
  /\ tasks[t].pc = "add"
  /\ CanLock(locks.mgr, Caller(t))
  /\ locks' = [locks EXCEPT !.mgr = Lock(@, Caller(t))]
  /\ tasks' = [tasks EXCEPT ![t].pc = "check"]
  /\ UNCHANGED <<RegFrame, monitors, groups, ctxDone, stopClosed, fault>>

\* AddMonitor: the URL is not empty, and no monitor is registered for it
AddMonitorCheck(t) ==
  /\ Alive
  /\ tasks[t].pc = "check"
  /\ tasks' = [tasks EXCEPT ![t] =
       LET url == config[tasks[t].m].URL
       IN IF url = "" THEN [@ EXCEPT !.pc = "unlock", !.err = ErrURLEmpty]
          ELSE IF Lookup(url) # {} THEN [@ EXCEPT !.pc = "unlock", !.err = ErrExists]
          ELSE [@ EXCEPT !.pc = "insert"]]
  /\ UNCHANGED <<RegFrame, monitors, groups, ctxDone, stopClosed, fault, locks>>

\* AddMonitor: m.monitors[url] = monitor
AddMonitorInsert(t) ==
  /\ Alive
  /\ tasks[t].pc = "insert"
  /\ monitors' = (monitors \ Lookup(config[tasks[t].m].URL)) \cup {tasks[t].m}
  /\ tasks' = [tasks EXCEPT ![t].pc = "unlock"]
  /\ UNCHANGED <<RegFrame, groups, ctxDone, stopClosed, fault, locks>>

\* CreateGroup under the lock
CreateGroupBody(t) ==
  /\ Alive
  /\ tasks[t].pc = "create"
  /\ LET g == tasks[t].g
     IN IF g \in DOMAIN groups
        THEN /\ tasks' = [tasks EXCEPT ![t].pc = "unlock", ![t].err = ErrGroupExists]
             /\ UNCHANGED groups
        ELSE /\ groups' = [x \in DOMAIN groups \cup {g} |-> IF x = g THEN NoGroup ELSE groups[x]]
             /\ tasks' = [tasks EXCEPT ![t].pc = "unlock"]
  /\ UNCHANGED <<RegFrame, monitors, ctxDone, stopClosed, fault, locks>>

\* the callers that are reading the Monitors map of the group g they got
\* from GetGroup
Users(g) == {u \in Callers : tasks[u].pc = "use" /\ tasks[u].g = g}

\* a write of the Monitors map of group g by t: with a reader of the same
\* map at work, the Go runtime may end the process
WriteMembers(t, g) ==
  IF Users(g) \ {t} # {}
  THEN fault' \in {"none", "concurrent map read and map write"}
  ELSE UNCHANGED fault

\* AddToGroup under the lock
AddToGroupBody(t) ==
  /\ Alive
  /\ tasks[t].pc = "join"
  /\ LET g == tasks[t].g
         found == Lookup(tasks[t].url)
     IN IF found = {}
        THEN /\ tasks' = [tasks EXCEPT ![t].pc = "unlock", ![t].err = ErrNoMonitor]
             /\ UNCHANGED <<groups, fault>>
        ELSE IF g \notin DOMAIN groups
        THEN /\ tasks' = [tasks EXCEPT ![t].pc = "unlock", ![t].err = ErrNoGroup]
             /\ UNCHANGED <<groups, fault>>
        ELSE /\ groups' = [groups EXCEPT ![g].Monitors = @ \cup found]
             /\ tasks' = [tasks EXCEPT ![t].pc = "unlock"]
             /\ WriteMembers(t, g)
  /\ UNCHANGED <<RegFrame, monitors, ctxDone, stopClosed, locks>>

\* RemoveMonitor: the lookup and monitor.Stop()
RemoveMonitorStop(t) ==
  /\ Alive
  /\ tasks[t].pc = "remove"
  /\ LET found == Lookup(tasks[t].url)
     IN IF found = {}
        THEN /\ tasks' = [tasks EXCEPT ![t].pc = "unlock", ![t].err = ErrNoMonitor]
             /\ UNCHANGED <<ctxDone, stopClosed, fault>>
        ELSE /\ tasks' = [tasks EXCEPT ![t].pc = "groups", ![t].left = DOMAIN groups]
             /\ StopEach(found)
  /\ UNCHANGED <<RegFrame, monitors, groups, locks>>

\* RemoveMonitor: delete(group.Monitors, url) for one more group
RemoveFromGroup(t, g) ==
  /\ Alive
  /\ tasks[t].pc = "groups"
  /\ g \in tasks[t].left
  /\ groups' = [groups EXCEPT ![g].Monitors = @ \ Lookup(tasks[t].url)]
  /\ tasks' = [tasks EXCEPT ![t].left = @ \ {g}]
  /\ WriteMembers(t, g)
  /\ UNCHANGED <<RegFrame, monitors, ctxDone, stopClosed, locks>>

\* RemoveMonitor: delete(m.monitors, url)
RemoveMonitorDelete(t) ==
  /\ Alive
  /\ tasks[t].pc = "groups"
  /\ tasks[t].left = {}
  /\ monitors' = monitors \ Lookup(tasks[t].url)
  /\ tasks' = [tasks EXCEPT ![t].pc = "unlock"]
  /\ UNCHANGED <<RegFrame, groups, ctxDone, stopClosed, fault, locks>>

\* the deferred m.mu.Unlock() and the return of a mutating call
UnlockManager(t) ==
  /\ Alive
  /\ tasks[t].pc = "unlock"
  /\ locks' = [locks EXCEPT !.mgr = Unlock(@, Caller(t))]
  /\ tasks' = [tasks EXCEPT ![t] = Returned(@, @.err, {})]
  /\ UNCHANGED <<RegFrame, monitors, groups, ctxDone, stopClosed, fault>>

\* what a read finds
Found(c) ==
  IF c.op = "GetMonitor" THEN Lookup(c.url)
  ELSE IF c.op = "GetGroup" THEN {c.g} \cap DOMAIN groups
  ELSE IF c.op = "ListMonitors" THEN {config[m].URL : m \in monitors}
  ELSE DOMAIN groups

\* a read under the lock, the deferred m.mu.RUnlock() and the return; the
\* caller of GetGroup goes on to read the Monitors of the group it got
ReadRegistry(t) ==
  /\ Alive
  /\ tasks[t].pc = "read"
  /\ locks' = [locks EXCEPT !.mgr = RUnlock(@, Caller(t))]
  /\ tasks' = [tasks EXCEPT ![t] =
       LET c == tasks[t]
       IN IF c.op = "GetMonitor" /\ Found(c) = {} THEN Returned(c, ErrNoMonitor, {})
          ELSE IF c.op = "GetGroup" /\ Found(c) = {} THEN Returned(c, ErrNoGroup, {})
          ELSE IF c.op = "GetGroup" THEN [c EXCEPT !.pc = "use"]
          ELSE Returned(c, "", Found(c))]
  /\ UNCHANGED <<RegFrame, monitors, groups, ctxDone, stopClosed, fault>>

\* the caller has read group.Monitors
UseGroup(t) ==
  /\ Alive
  /\ tasks[t].pc = "use"
  /\ tasks' = [tasks EXCEPT ![t] = Returned(@, "", groups[@.g].Monitors)]
  /\ UNCHANGED <<RegFrame, monitors, groups, ctxDone, stopClosed, fault, locks>>

\* the URL and the group the callers name
LockURL == "a"
LockGroup == "g"

InitLock ==
  /\ config \in {c \in [URLs -> RegConfigs] :
                   /\ c["a"].URL = "a" /\ c["a"].Interval > 0
                   /\ c["b"].URL \in {"a", "b"}
                   /\ (c["b"].Interval <= 0 => c["b"].URL = "b")}
  /\ InitState(MgrServers, MgrChecks)

NextLock ==
  \/ \E t \in Callers, m \in URLs : LockManager(t, "AddMonitor", m, config[m].URL, "", "check")
  \/ \E t \in Callers, m \in URLs : ValidateConfig(t, m)
  \/ \E t \in Callers : LockAfterValidate(t)
  \/ \E t \in Callers : AddMonitorCheck(t)
  \/ \E t \in Callers : AddMonitorInsert(t)
  \/ \E t \in Callers : LockManager(t, "CreateGroup", "", "", LockGroup, "create")
  \/ \E t \in Callers : CreateGroupBody(t)
  \/ \E t \in Callers : LockManager(t, "AddToGroup", "", LockURL, LockGroup, "join")
  \/ \E t \in Callers : AddToGroupBody(t)
  \/ \E t \in Callers : LockManager(t, "RemoveMonitor", "", LockURL, "", "remove")
  \/ \E t \in Callers : RemoveMonitorStop(t)
  \/ \E t \in Callers, g \in GroupNames : RemoveFromGroup(t, g)
  \/ \E t \in Callers : RemoveMonitorDelete(t)
  \/ \E t \in Callers : UnlockManager(t)
  \/ \E t \in Callers : RLockManager(t, "GetMonitor", LockURL, "")
  \/ \E t \in Callers : RLockManager(t, "GetGroup", "", LockGroup)
  \/ \E t \in Callers : RLockManager(t, "ListMonitors", "", "")
  \/ \E t \in Callers : RLockManager(t, "ListGroups", "", "")
  \/ \E t \in Callers : ReadRegistry(t)
  \/ \E t \in Callers : UseGroup(t)

SpecLock == InitLock /\ [][NextLock]_vars

\* ------------------------------------------------ the check cycle in steps
\* performCheck and detectChange with m.mu taken and released statement by
\* statement, and Start, Stop and GetStatus of callers that run beside the
\* goroutines.  The fetch, the sleep, the sends and the forwarder take no
\* lock: their steps are Fetch, Sleep, ForwarderReceive and the forwarder's.

\* what a step on a monitor's lock leaves alone
HoldFrame == <<config, server, ticks, ctxDone, stopClosed, changesClosed, mgrVars, delivered,
               fault, ret, tasks>>

UnlockMonitorForgotten(L, m, id) == L

\* m.mu.Unlock() of monitor m by goroutine id
UnlockMonitor(L, m, id) == [L EXCEPT !.mon[m] = Unlock(@, id)]

\* performCheck: m.mu.Lock(), at once or when the select takes a tick
LockCheck(m, k) ==
  /\ Alive
  /\ \/ run[m][k].pc = "begin"
     \/ run[m][k].pc = "select" /\ checkCount[m] < ticks[m]
  /\ CanLock(locks.mon[m], Runner(m, k))
  /\ locks' = [locks EXCEPT !.mon[m] = Lock(@, Runner(m, k))]
  /\ run' = [run EXCEPT ![m][k] = [NoTask EXCEPT !.pc = "counting"]]
  /\ UNCHANGED <<HoldFrame, lastContent, isFirstCheck, status, checkCount, observed>>

\* performCheck: m.checkCount++, m.status = "checking", m.mu.Unlock()
CountCheck(m, k) ==
  /\ Alive
  /\ run[m][k].pc = "counting"
  /\ checkCount' = [checkCount EXCEPT ![m] = @ + 1]
  /\ status' = [status EXCEPT ![m] = "checking"]
  /\ run' = [run EXCEPT ![m][k] =
       [NoTask EXCEPT !.pc = "fetch", !.cycle = checkCount[m] + 1,
                      !.base0 = lastContent[m], !.first0 = isFirstCheck[m]]]
  /\ locks' = UnlockMonitor(locks, m, Runner(m, k))
  /\ UNCHANGED <<HoldFrame, lastContent, isFirstCheck, observed>>

\* detectChange: m.mu.Lock()
LockDetect(m, k) ==
  /\ Alive
  /\ run[m][k].pc = "detect"
  /\ CanLock(locks.mon[m], Runner(m, k))
  /\ locks' = [locks EXCEPT !.mon[m] = Lock(@, Runner(m, k))]
  /\ run' = [run EXCEPT ![m][k].pc = "detecting"]
  /\ UNCHANGED <<HoldFrame, lastContent, isFirstCheck, status, checkCount, observed>>

\* detectChange under the lock, and its deferred m.mu.Unlock()
DetectUnlock(m, k) ==
  /\ Alive
  /\ run[m][k].pc = "detecting"
  /\ LET d == detectChange(config[m], lastContent[m], Bytes(run[m][k].content))
     IN /\ lastContent' = [lastContent EXCEPT ![m] = d.lastContent]
        /\ run' = [run EXCEPT ![m][k].pc = "finish", ![m][k].changed = d.changed,
                              ![m][k].details = d.details, ![m][k].obs = observed[m]]
  /\ observed' = [observed EXCEPT ![m] = TRUE]
  /\ locks' = UnlockMonitor(locks, m, Runner(m, k))
  /\ UNCHANGED <<HoldFrame, isFirstCheck, status, checkCount>>

\* performCheck after detectChange: m.mu.Lock()
LockFinish(m, k) ==
  /\ Alive
  /\ run[m][k].pc = "finish"
  /\ CanLock(locks.mon[m], Runner(m, k))
  /\ locks' = [locks EXCEPT !.mon[m] = Lock(@, Runner(m, k))]
  /\ run' = [run EXCEPT ![m][k].pc = "finishing"]
  /\ UNCHANGED <<HoldFrame, lastContent, isFirstCheck, status, checkCount, observed>>

\* performCheck: status "idle", the first-check flag, m.mu.Unlock(), and
\* what follows the lock region
FinishUnlock(m, k) ==
  /\ Alive
  /\ run[m][k].pc = "finishing"
  /\ status' = [status EXCEPT ![m] = "idle"]
  /\ isFirstCheck' = [isFirstCheck EXCEPT ![m] = FALSE]
  /\ LET t == run[m][k]
     IN run' = [run EXCEPT ![m][k] =
          IF Reports(isFirstCheck[m], t.changed)
          THEN [t EXCEPT !.pc = "send",
                         !.change = [t.change EXCEPT !.HasChanged = TRUE, !.Details = t.details,
                                                     !.cycle = t.cycle, !.obs = t.obs]]
          ELSE [NoTask EXCEPT !.pc = "select"]]
  /\ locks' = UnlockMonitor(locks, m, Runner(m, k))
  /\ UNCHANGED <<HoldFrame, lastContent, checkCount, observed>>

\* GetStatus: m.mu.RLock()
RLockMonitor(t, m) ==
  /\ Alive
  /\ Free(t)
  /\ CanRLock(locks.mon[m], Caller(t))
  /\ locks' = [locks EXCEPT !.mon[m] = RLock(@, Caller(t))]
  /\ tasks' = [tasks EXCEPT ![t] = Begun("GetStatus", m, "", "", "status")]
  /\ UNCHANGED <<monVars, mgrVars, delivered, fault, ret>>

\* GetStatus: the read, and the deferred m.mu.RUnlock()
ReadStatus(t) ==
  /\ Alive
  /\ tasks[t].pc = "status"
  /\ locks' = [locks EXCEPT !.mon[tasks[t].m] = RUnlock(@, Caller(t))]
  /\ tasks' = [tasks EXCEPT ![t] = Returned(@, "", {status[@.m]})]
  /\ UNCHANGED <<monVars, mgrVars, delivered, fault, ret>>

\* Manager.Start under the lock: monitor.Start() and go forwardChanges for
\* every registered monitor
StartBody(t) ==
  /\ Alive
  /\ tasks[t].pc = "spawn"
  /\ StartAll(monitors)
  /\ tasks' = [tasks EXCEPT ![t].pc = "unlock"]
  /\ UNCHANGED <<ret, locks>>

\* Manager.Stop: m.cancel(), before the lock
CancelStop(t) ==
  /\ Alive
  /\ Free(t)
  /\ mgrCtxDone' = TRUE
  /\ tasks' = [tasks EXCEPT ![t] = Begun("Stop", "", "", "", "lock")]
  /\ UNCHANGED <<monVars, fwd, monitors, groups, changeChannelClosed, stopping, delivered,
                 fault, ret, locks>>

\* Manager.Stop: m.mu.Lock()
LockStop(t) ==
  /\ Alive
  /\ tasks[t].pc = "lock"
  /\ CanLock(locks.mgr, Caller(t))
  /\ locks' = [locks EXCEPT !.mgr = Lock(@, Caller(t))]
  /\ tasks' = [tasks EXCEPT ![t].pc = "stop"]
  /\ UNCHANGED <<monVars, mgrVars, delivered, fault, ret>>

\* Manager.Stop under the lock: monitor.Stop() for every registered monitor,
\* then close(m.changeChannel)
StopBody(t) ==
  /\ Alive
  /\ tasks[t].pc = "stop"
  /\ IF (\E m \in monitors : stopClosed[m]) \/ changeChannelClosed
     THEN /\ fault' = (IF changeChannelClosed THEN "close of closed changeChannel" ELSE "close of closed stop")
          /\ UNCHANGED <<ctxDone, stopClosed, changeChannelClosed>>
     ELSE /\ StopEach(monitors)
          /\ changeChannelClosed' = TRUE
  /\ tasks' = [tasks EXCEPT ![t].pc = "unlock"]
  /\ UNCHANGED <<config, server, ticks, lastContent, isFirstCheck, status, checkCount,
                 changesClosed, run, observed, fwd, monitors, groups, mgrCtxDone, stopping,
                 delivered, ret, locks>>

\* the monitor the application registers, and the caller that reads its status
HoldURL == "a"
StatusReader == "c2"

InitHold ==
  /\ InitWith({c \in Configs : c.Method = MethodHash}, {AllOutcomes}, MgrChecks)
  /\ config["b"] \in MgrConfigs

NextHold ==
  \/ \E t \in Callers \ {StatusReader} :
       monitors = {} /\ LockManager(t, "AddMonitor", HoldURL, HoldURL, "", "check")
  \/ \E t \in Callers : AddMonitorCheck(t)
  \/ \E t \in Callers : AddMonitorInsert(t)
  \/ \E t \in Callers \ {StatusReader} :
       monitors # {} /\ SpawnCount(URLs) = 0 /\ LockManager(t, "Start", "", "", "", "spawn")
  \/ \E t \in Callers : StartBody(t)
  \/ \E t \in Callers \ {StatusReader} : ~mgrCtxDone /\ CancelStop(t)
  \/ \E t \in Callers : LockStop(t)
  \/ \E t \in Callers : StopBody(t)
  \/ \E t \in Callers : UnlockManager(t)
  \/ RLockMonitor(StatusReader, HoldURL)
  \/ ReadStatus(StatusReader)
  \/ \E m \in URLs, k \in Slots : LockCheck(m, k)
  \/ \E m \in URLs, k \in Slots : CountCheck(m, k)
  \/ \E m \in URLs, k \in Slots, o \in AllOutcomes : Fetch(m, k, o)
  \/ \E m \in URLs, k \in Slots : Sleep(m, k)
  \/ \E m \in URLs, k \in Slots : LockDetect(m, k)
  \/ \E m \in URLs, k \in Slots : DetectUnlock(m, k)
  \/ \E m \in URLs, k \in Slots : LockFinish(m, k)
  \/ \E m \in URLs, k \in Slots : FinishUnlock(m, k)
  \/ \E m \in URLs, k \in Slots : RunExit(m, k)
  \/ \E m \in URLs, f \in Slots : ForwarderStep(m, f)

SpecHold == InitHold /\ [][NextHold]_vars

\* ------------------------------------------------------------------ claims
RunLive(m, k) == run[m][k].pc \notin {"none", "done"}
ForwarderLive(m, f) == fwd[m][f].pc \in {"recv", "select"}
CycleInProgress(m, k) == run[m][k].pc \in {"fetch", "sleep", "detect", "finish", "send"}

\* C1: no forwarder ever sends on the shared channel after Manager.Stop has
\* closed it
C1_NoSendAfterClose == fault # "send on closed changeChannel"

\* C2: once a monitor's context is cancelled, each of its run goroutines
\* eventually returns with the monitor's channel closed (or the process has
\* ended)
C2_RunEnds ==
  \A m \in URLs, k \in Slots :
    (ctxDone[m] /\ RunLive(m, k))
      ~> ((run[m][k].pc = "done" /\ changesClosed[m]) \/ ~Alive)

C4_OneTaskPerMonitor ==
  \A m \in URLs :
    /\ Cardinality({k \in Slots : RunLive(m, k)}) <= 1
    /\ Cardinality({f \in Slots : ForwarderLive(m, f)}) <= 1

\* C5: an event that is not an error event comes from a cycle that found an
\* earlier successful observation, so does every event with HasChanged; and
\* the first successful cycle finds no change and stores the fetched
\* content as the baseline
C5_FirstObservationSilent ==
  \A m \in URLs, k \in Slots :
    LET t == run[m][k]
    IN /\ (t.pc = "send" /\ t.change.Error = "") => t.change.obs
       /\ (t.pc = "send" /\ t.change.HasChanged) => (t.change.obs /\ t.change.Error = "")
       /\ (t.pc = "finish" /\ ~t.obs) => (~t.changed /\ lastContent[m] = t.content)

\* the first successful cycle, the second cycle after a failed one whose
\* error event was received, is over and has sent nothing
C5_Witness ==
  \E m \in Direct :
    /\ run[m][1].pc = "select" /\ ~run[m][1].failed
    /\ checkCount[m] = 2 /\ delivered[m] = 1
    /\ observed[m] /\ lastContent[m] # Nil /\ ~isFirstCheck[m]

\* C6: a cycle makes at most RetryCount+1 attempts and sleeps before every
\* attempt but the first; it comes to its error event after exactly
\* RetryCount+1 failed attempts, with no event of the cycle sent before; a
\* cycle whose attempt succeeded makes no further attempt and carries no error
C6_RetryBudget ==
  \A m \in URLs, k \in Slots :
    LET t == run[m][k]
        n == config[m].RetryCount
    IN /\ t.attempts <= n + 1
       /\ t.pc = "fetch" => t.sleeps = t.attempts
       /\ t.pc = "sleep" => (t.attempts >= 1 /\ t.sleeps = t.attempts - 1)
       /\ (t.pc = "send" /\ t.change.Error # "")
            => (t.attempts = n + 1 /\ t.sleeps = n /\ delivered[m] < t.cycle)
       /\ (t.pc \in {"detect", "finish"} \/ (t.pc = "send" /\ t.change.Error = ""))
            => (t.err = "" /\ t.change.Error = "" /\ t.sleeps = t.attempts - 1
                /\ delivered[m] < t.cycle)

\* a cycle with a retry has failed in all its attempts and holds its error event
C6_Witness ==
  \E m \in Direct :
    /\ config[m].RetryCount = MaxRetry
    /\ run[m][1].pc = "send" /\ run[m][1].change.Error # ""
    /\ run[m][1].attempts = MaxRetry + 1 /\ run[m][1].sleeps = MaxRetry

\* C7: when no check cycle of a monitor is in progress its status is idle
\* (the empty status of a monitor that has begun no cycle is let pass)
C7_IdleBetweenCycles ==
  \A m \in URLs :
    (\A k \in Slots : ~CycleInProgress(m, k))
      => (status[m] = "idle" \/ (status[m] = "" /\ checkCount[m] = 0))

\* C8: a cycle that comes to its error event has the baseline and the
\* first-check flag it began with
C8_FailureKeepsBaseline ==
  \A m \in URLs, k \in Slots :
    LET t == run[m][k]
    IN (t.pc = "send" /\ t.change.Error # "")
         => (lastContent[m] = t.base0 /\ isFirstCheck[m] = t.first0)

\* a cycle of a monitor that has a baseline has failed after a retry
C8_Witness ==
  \E m \in Direct :
    /\ run[m][1].pc = "send" /\ run[m][1].change.Error # ""
    /\ run[m][1].attempts = 2
    /\ lastContent[m] # Nil /\ ~isFirstCheck[m]

\* C9: a run goroutine ends only when its monitor is cancelled, and once the
\* error event of a failed cycle is received, a monitor that has ticks to
\* come begins another cycle unless it is cancelled
C9_KeepsTicking ==
  /\ [](\A m \in URLs, k \in Slots : run[m][k].pc = "done" => ctxDone[m])
  /\ \A m \in URLs, k \in Slots :
       (run[m][k].pc = "select" /\ run[m][k].failed /\ ~ctxDone[m]
          /\ checkCount[m] < ticks[m])
         ~> (CycleInProgress(m, k) \/ ctxDone[m])

\* the third cycle has begun after two failed cycles whose events were received
C9_Witness ==
  \E m \in Direct :
    /\ run[m][1].pc = "fetch" /\ checkCount[m] = 3 /\ delivered[m] = 2
    /\ ~observed[m] /\ ~ctxDone[m]

\* C10: on the shared channel the events of a URL come in the order of the
\* cycles that made them
C10_PerUrlOrder == [][\A m \in URLs : delivered'[m] >= delivered[m]]_vars

\* the cycle of run goroutine k of m ends in this step
CycleEnds(m, k) == CycleInProgress(m, k) /\ run'[m][k].pc = "select"

\* C12 as stated: a cycle ends without an event only when it made the first
\* successful observation; every other cycle ends by handing over its one event
C12_OneEventPerCycle ==
  [][\A m \in URLs, k \in Slots :
       CycleEnds(m, k) =>
         \/ run[m][k].pc = "send" /\ delivered[m] < run[m][k].cycle
         \/ run[m][k].pc = "finish" /\ ~run[m][k].obs]_vars

\* C12, amended: a cycle ends either by handing over its one event or, after
\* a success, without any; it ends without one exactly when it made the
\* first successful observation or it found no change
C12_AtMostOneEventPerCycle ==
  [][\A m \in URLs, k \in Slots :
       CycleEnds(m, k) =>
         \/ run[m][k].pc = "send" /\ delivered[m] < run[m][k].cycle
              /\ (run[m][k].change.Error # "" \/ (run[m][k].obs /\ run[m][k].changed))
         \/ run[m][k].pc = "finish" /\ (~run[m][k].obs \/ ~run[m][k].changed)]_vars

\* a later successful cycle that found no change is over and has sent nothing
C12_Witness ==
  \E m \in Direct :
    /\ run[m][1].pc = "select" /\ ~run[m][1].failed
    /\ checkCount[m] = 2 /\ delivered[m] = 0 /\ observed[m]

\* C13: a successful cycle that is not the first goes on to send exactly when
\* the detector reported a change, and the event it sends has HasChanged, the
\* status code and content type of the fetch and the detector's details
C13_ChangeEvent ==
  /\ [](\A m \in URLs, k \in Slots :
         LET t == run[m][k]
         IN (t.pc = "send" /\ t.change.Error = "") =>
              /\ t.changed /\ t.change.HasChanged
              /\ t.change.URL = config[m].URL
              /\ t.change.StatusCode = 200 /\ t.change.ContentType = "text/html"
              /\ t.change.Details = detectChange(config[m], t.base0, Bytes(t.content)).details
              /\ delivered[m] < t.cycle)
  /\ [][\A m \in URLs, k \in Slots :
          (run[m][k].pc = "finish" /\ run[m][k].obs /\ run'[m][k].pc # "finish")
            => (run'[m][k].pc = "send" <=> run[m][k].changed)]_vars

\* a third cycle found the second content changed back and holds its event
C13_Witness ==
  \E m \in Direct :
    /\ run[m][1].pc = "send" /\ run[m][1].change.HasChanged
    /\ run[m][1].cycle = 3 /\ delivered[m] = 2

\* C14: no event, in a run goroutine's hands or in a forwarder's, has both
\* an error and HasChanged
C14_ErrorXorChanged ==
  /\ \A m \in URLs, k \in Slots :
       run[m][k].pc = "send" => ~(run[m][k].change.Error # "" /\ run[m][k].change.HasChanged)
  /\ \A m \in URLs, f \in Slots :
       fwd[m][f].pc = "select" => ~(fwd[m][f].change.Error # "" /\ fwd[m][f].change.HasChanged)

\* the error event of a failed cycle that came after an observed change
C14_Witness ==
  \E m \in Direct :
    /\ run[m][1].pc = "send" /\ run[m][1].change.Error # ""
    /\ run[m][1].cycle = 3 /\ delivered[m] = 2 /\ observed[m]

\* the registry and the groups, and what starts and stops monitors
RegistryUnchanged == UNCHANGED <<monitors, groups>>
NothingStartedOrStopped == UNCHANGED <<run, fwd, ctxDone, stopClosed, fault>>

\* C15: no two registered monitors have the same URL, and AddMonitor or
\* AddMonitorWithConfig of a monitor whose URL is registered returns an error
\* and leaves the registry as it was
C15_DuplicateUrlRejected ==
  /\ [](\A m1 \in monitors, m2 \in monitors : config[m1].URL = config[m2].URL => m1 = m2)
  /\ [][\A m \in URLs :
          ((CallAddMonitor(m) \/ CallAddMonitorWithConfig(m)) /\ Lookup(config[m].URL) # {})
            => (ret'.err # "" /\ RegistryUnchanged)]_vars

\* AddMonitor of a second monitor object with a registered URL has failed
C15_Witness ==
  /\ ret = Ret("AddMonitor", ErrExists, <<>>)
  /\ monitors = {"a"} /\ config["b"].URL = config["a"].URL

\* C16: AddMonitor and AddMonitorWithConfig of a monitor with an empty URL or
\* an interval that is not positive return an error and register nothing,
\* and no such monitor is ever registered
C16_InvalidMonitorRejected ==
  /\ [](\A m \in monitors : config[m].URL # "" /\ config[m].Interval > 0)
  /\ [][\A m \in URLs :
          ((CallAddMonitor(m) \/ CallAddMonitorWithConfig(m))
             /\ (config[m].URL = "" \/ config[m].Interval <= 0))
            => (ret'.err # "" /\ RegistryUnchanged)]_vars

\* C17: RemoveMonitor of a registered URL stops its monitor, takes it out of
\* the registry and of every group and changes no other monitor, group or
\* membership; of an unknown URL it returns an error and changes nothing
C17_RemoveMonitor ==
  [][\A url \in CallKeys :
       CallRemoveMonitor(url) =>
         IF Lookup(url) = {}
         THEN ret'.err # "" /\ RegistryUnchanged /\ NothingStartedOrStopped
         ELSE \A m \in Lookup(url) :
                /\ ret'.err = "" /\ fault' = "none"
                /\ ctxDone'[m] /\ stopClosed'[m]
                /\ \A x \in URLs \ {m} : ctxDone'[x] = ctxDone[x] /\ stopClosed'[x] = stopClosed[x]
                /\ monitors' = monitors \ {m}
                /\ DOMAIN groups' = DOMAIN groups
                /\ \A g \in DOMAIN groups :
                     groups'[g] = [groups[g] EXCEPT !.Monitors = @ \ {m}]]_vars

\* C18: CreateGroup of a new name adds an empty group with the name and the
\* description and leaves the other groups as they were; of an existing name
\* it returns an error and leaves every group as it was
C18_CreateGroup ==
  [][\A g \in GroupNames, d \in Descriptions :
       CallCreateGroup(g, d) =>
         IF g \in DOMAIN groups
         THEN ret'.err # "" /\ RegistryUnchanged
         ELSE /\ ret'.err = ""
              /\ DOMAIN groups' = DOMAIN groups \cup {g}
              /\ groups'[g] = [Description |-> d, Monitors |-> {}]
              /\ \A x \in DOMAIN groups : groups'[x] = groups[x]
              /\ monitors' = monitors]_vars

\* CreateGroup of the name of a group that has a member, with another
\* description, has failed
C18_Witness ==
  /\ ret = Ret("CreateGroup", ErrGroupExists, <<>>)
  /\ \E g \in DOMAIN groups : groups[g].Monitors # {} /\ groups[g].Description = "d1"
  /\ \A g \in DOMAIN groups : groups[g].Description # "d2"

\* C19: AddToGroup succeeds exactly when the URL is registered and the group
\* exists; the group then holds the URL's monitor once, a member added again
\* changes nothing, and the other groups stay as they were. Otherwise it
\* returns an error and no group changes.
C19_AddToGroup ==
  [][\A url \in CallKeys, g \in GroupNames :
       CallAddToGroup(url, g) =>
         IF Lookup(url) # {} /\ g \in DOMAIN groups
         THEN /\ ret'.err = ""
              /\ DOMAIN groups' = DOMAIN groups
              /\ groups'[g] = [groups[g] EXCEPT !.Monitors = @ \cup Lookup(url)]
              /\ Cardinality({m \in groups'[g].Monitors : config[m].URL = url}) = 1
              /\ Lookup(url) \subseteq groups[g].Monitors => groups' = groups
              /\ \A x \in DOMAIN groups \ {g} : groups'[x] = groups[x]
              /\ monitors' = monitors
         ELSE ret'.err # "" /\ RegistryUnchanged]_vars

\* AddToGroup has put both monitors in one group and one of them in the other
C19_Witness ==
  /\ ret = Ret("AddToGroup", "", <<>>)
  /\ \E g \in DOMAIN groups, x \in DOMAIN groups :
       groups[g].Monitors = {"a", "b"} /\ groups[x].Monitors = {"b"}

\* C20: GetMonitor, StartMonitor and StopMonitor of a URL that is not
\* registered, and GetGroup, StartGroup and StopGroup of a name that is no
\* group, return an error, start and stop no monitor, and leave the registry
\* and the groups as they were
C20_UnknownKeyRejected ==
  [][/\ \A url \in CallKeys :
          ((CallGetMonitor(url) \/ CallStartMonitor(url) \/ CallStopMonitor(url))
             /\ Lookup(url) = {})
            => (ret'.err # "" /\ RegistryUnchanged /\ NothingStartedOrStopped)
     /\ \A g \in GroupNames :
          ((CallGetGroup(g) \/ CallStartGroup(g) \/ CallStopGroup(g))
             /\ g \notin DOMAIN groups)
            => (ret'.err # "" /\ RegistryUnchanged /\ NothingStartedOrStopped)]_vars

\* StopGroup of an unknown name has failed while a registered monitor runs
C20_Witness ==
  /\ ret = Ret("StopGroup", ErrNoGroup, <<>>)
  /\ \E m \in monitors : Spawned(m) # {} /\ ~ctxDone[m] /\ ~stopClosed[m]
  /\ DOMAIN groups # GroupNames

\* C11: while a target fails in every cycle nothing is cancelled, closed or
\* ended and nothing panics; each of its cycles ends by sending one error
\* event of that cycle; and every event a started target sends, of the
\* failing target or of another, is taken by a forwarder and delivered on
\* the shared channel
C11_FailingTargetIsolated ==
  /\ [](/\ fault = "none" /\ ~mgrCtxDone /\ ~changeChannelClosed
        /\ \A m \in URLs :
             /\ ~ctxDone[m] /\ ~stopClosed[m] /\ ~changesClosed[m]
             /\ \A k \in Slots : run[m][k].pc # "done" /\ fwd[m][k].pc # "done")
  /\ [][\A m \in URLs, k \in Slots :
          /\ (server[m] = Failing /\ CycleInProgress(m, k) /\ run[m][k].pc # "send"
                /\ run'[m][k] # run[m][k])
               => /\ run'[m][k].pc = "send"
                  /\ run'[m][k].change.Error # ""
                  /\ run'[m][k].change.cycle = run[m][k].cycle
          /\ (run[m][k].pc = "send" /\ run'[m][k].pc # "send")
               => \E f \in Slots : /\ fwd[m][f].pc = "recv" /\ fwd'[m][f].pc = "select"
                                   /\ fwd'[m][f].change = run[m][k].change
          /\ (fwd[m][k].pc = "select" /\ fwd'[m][k].pc # "select")
               => delivered'[m] = fwd[m][k].change.cycle]_vars
  /\ \A m \in URLs, k \in Slots :
       /\ (server[m] = Failing /\ run[m][k].pc = "fetch") ~> (run[m][k].pc = "send")
       /\ (run[m][k].pc = "send") ~> (run[m][k].pc # "send")
       /\ (fwd[m][k].pc = "select") ~> (fwd[m][k].pc # "select")

\* the change event of the second cycle of "b" and the error event of the
\* second cycle of "a" have both been delivered
C11_Witness ==
  /\ server["a"] = Failing /\ server["b"] # Failing
  /\ delivered["a"] = 2 /\ delivered["b"] = 2

\* the last call was detectChange on monitor "a", and what ret keeps of it
Detected == ret.op = "detectChange"
DetCall == ret.val[1]
DetCfg == config["a"]
HadBaseline == Detected /\ DetCall.baseline # Nil

\* C24: when detectChange reports a change, with any method, filters and
\* normalization, the baseline stored afterwards is the content it was
\* called with
C24_BaselineIsOriginal ==
  (Detected /\ DetCall.changed) => lastContent["a"] = Some(DetCall.content)

\* a change was reported for a content that the filters or the normalization
\* rewrite
C24_Witness ==
  /\ Detected /\ DetCall.changed
  /\ CompareForm(DetCfg, DetCall.content) # DetCall.content
  /\ lastContent["a"] = Some(DetCall.content)

\* C25: detectChange with method Hash or Length, called with the content
\* that is its baseline, reports no change, whatever the filters and the
\* normalization
C25_SameContentUnchanged ==
  (/\ Detected /\ DetCall.baseline = Some(DetCall.content)
   /\ DetCfg.Method \in {MethodHash, MethodLength})
    => ~DetCall.changed

\* detectChange was called with its baseline, a content the filters rewrite
C25_Witness ==
  /\ Detected /\ DetCall.baseline = Some(DetCall.content) /\ ~DetCall.changed
  /\ DetCfg.Method \in {MethodHash, MethodLength}
  /\ DetCfg.filters # <<>>
  /\ CompareForm(DetCfg, DetCall.content) # DetCall.content

\* C26: when Hash-method detectChange reports a change between a baseline
\* and a content of the same length, the position in its details is at most
\* every index where the two differ, and is the first such index when no
\* filter and no normalization is configured
C26_DiffIndex ==
  (/\ HadBaseline /\ DetCfg.Method = MethodHash /\ DetCall.changed
   /\ Len(Bytes(DetCall.baseline)) = Len(DetCall.content))
    => /\ DetCall.details.kind = "diff"
       /\ \A k \in 0..(Len(DetCall.content) - 1) :
            Bytes(DetCall.baseline)[k + 1] # DetCall.content[k + 1] => DetCall.details.pos <= k
       /\ (DetCfg.filters = <<>> /\ ~DetCfg.NormalizeWhitespace)
            => DetCall.details.pos = FirstDiff(Bytes(DetCall.baseline), DetCall.content)

\* C27: with method Length detectChange reports a change exactly when the
\* compared forms of baseline and content differ in length, and when it
\* reports none the baseline stays
C27_LengthMethod ==
  (HadBaseline /\ DetCfg.Method = MethodLength)
    => /\ DetCall.changed <=>
            Len(CompareForm(DetCfg, Bytes(DetCall.baseline)))
              # Len(CompareForm(DetCfg, DetCall.content))
       /\ ~DetCall.changed => lastContent["a"] = DetCall.baseline

\* two contents of one length with different bytes were found unchanged
C27_Witness ==
  /\ HadBaseline /\ DetCfg.Method = MethodLength /\ ~DetCall.changed
  /\ Len(Bytes(DetCall.baseline)) = Len(DetCall.content)
  /\ Bytes(DetCall.baseline) # DetCall.content
  /\ lastContent["a"] = DetCall.baseline

\* the parts of C28 that do not depend on what the comparator is given: on
\* the first observation no change is reported whatever the comparator, and
\* without a comparator none is ever reported and the baseline stays
CustomWithoutComparison ==
  /\ (Detected /\ DetCfg.Method = MethodCustom /\ DetCall.baseline = Nil) => ~DetCall.changed
  /\ (HadBaseline /\ DetCfg.Method = MethodCustom /\ DetCfg.CustomCompareFn = NoFn)
       => (~DetCall.changed /\ lastContent["a"] = DetCall.baseline)

\* C28 as stated: with a baseline, Custom-method detectChange returns what
\* the comparator returns for the baseline and the content
C28_CustomReturnsComparators ==
  /\ CustomWithoutComparison
  /\ (HadBaseline /\ DetCfg.Method = MethodCustom /\ DetCfg.CustomCompareFn # NoFn)
       => [changed |-> DetCall.changed, details |-> DetCall.details]
            = CustomCompare(DetCfg.CustomCompareFn, Bytes(DetCall.baseline), DetCall.content)

\* C28, amended: with a baseline, Custom-method detectChange reports the
\* change the comparator reports for the compared forms of baseline and
\* content, with the comparator's details when that is a change and with
\* empty details otherwise
C28_CustomOnComparedForms ==
  /\ CustomWithoutComparison
  /\ (HadBaseline /\ DetCfg.Method = MethodCustom /\ DetCfg.CustomCompareFn # NoFn)
       => LET r == CustomCompare(DetCfg.CustomCompareFn,
                                 CompareForm(DetCfg, Bytes(DetCall.baseline)),
                                 CompareForm(DetCfg, DetCall.content))
          IN /\ DetCall.changed = r.changed
             /\ DetCall.details = IF r.changed THEN r.details ELSE NoDetails

\* the comparator found the compared forms equal where the contents differ
C28_Witness ==
  /\ HadBaseline /\ DetCfg.Method = MethodCustom /\ DetCfg.CustomCompareFn = "differ"
  /\ Bytes(DetCall.baseline) # DetCall.content
  /\ ~DetCall.changed

\* a content with every match of the timestamp pattern replaced by a mark
\* that is no byte: two contents differ only inside matched substrings when
\* they differ and their marked forms are equal
Marked(content) == ReplaceAll(content, 1, TimestampPattern, <<-1>>)
DifferOnlyInStamps(old, new) == old # new /\ Marked(old) = Marked(new)
HasSentinel(content) == \E i \in 1..Len(content) : HasPrefixAt(content, i, Sentinel)

\* a Hash-method detectChange call with a baseline, on a monitor whose only
\* filter, if any, is the timestamp filter
StampCall ==
  /\ HadBaseline /\ DetCfg.Method = MethodHash /\ DetCfg.ContentFilters = <<>>
  /\ Bytes(DetCall.baseline) # DetCall.content

\* C29 as stated: contents that differ only inside timestamps are found
\* changed exactly when IgnoreTimestamps is off, and contents that differ
\* outside the timestamps are found changed in both settings (the
\* whitespace normalization, which the claim does not mention, being off)
C29_TimestampsIgnored ==
  StampCall =>
    IF DifferOnlyInStamps(Bytes(DetCall.baseline), DetCall.content)
    THEN DetCall.changed <=> ~DetCfg.IgnoreTimestamps
    ELSE ~DetCfg.NormalizeWhitespace => DetCall.changed

\* C29, amended: contents that differ only inside timestamps are found
\* changed exactly when IgnoreTimestamps is off; contents that differ
\* outside the timestamps are found changed in both settings when the
\* whitespace normalization is off and neither content contains the text
\* TIMESTAMP that the filter puts in place of a match
C29_TimestampsIgnoredBarSentinel ==
  StampCall =>
    IF DifferOnlyInStamps(Bytes(DetCall.baseline), DetCall.content)
    THEN DetCall.changed <=> ~DetCfg.IgnoreTimestamps
    ELSE (/\ ~DetCfg.NormalizeWhitespace
          /\ ~HasSentinel(Bytes(DetCall.baseline)) /\ ~HasSentinel(DetCall.content))
           => DetCall.changed

\* with IgnoreTimestamps, no change was found between two contents that
\* differ in their timestamps only
C29_Witness ==
  /\ StampCall /\ DetCfg.IgnoreTimestamps /\ ~DetCall.changed
  /\ DetCall.baseline = Some(<<97>> \o Stamp1) /\ DetCall.content = <<97>> \o Stamp2

\* the filters were applied to what they had returned
AppliedAgain == ret.op = "Apply" /\ ret'.op = "Apply" /\ ret'.val[1] = ret.val[2]

PatternBytes(f) == {f.pattern.text[i] : i \in 1..Len(f.pattern.text)}
\* filters with literal patterns and replacements that are not empty and
\* have no byte of any of the patterns
InertReplacements(l) ==
  \A i \in 1..Len(l), j \in 1..Len(l) :
    /\ l[i].pattern.kind = "literal"
    /\ l[i].replacement # <<>>
    /\ \A n \in 1..Len(l[i].replacement) : l[i].replacement[n] \notin PatternBytes(l[j])

Adding(t) == tasks[t].op \in {"AddMonitor", "AddMonitorWithConfig"}
Added(t) == Adding(t) /\ tasks[t].pc = "done"
ValidAdd(t) ==
  /\ config[tasks[t].m].URL # ""
  /\ tasks[t].op = "AddMonitorWithConfig" => config[tasks[t].m].Interval > 0
AddedURL(t) == config[tasks[t].m].URL

\* no monitor has been removed: RemoveMonitor stops the monitor it removes
NoRemoval == \A m \in URLs : ~stopClosed[m]

\* C21: concurrent AddMonitor and AddMonitorWithConfig calls behave as if
\* they ran one after the other.  While nothing has been removed, a valid
\* call that has returned either succeeded, and then its monitor is the one
\* registered for its URL, or failed because the URL was registered; of two
\* calls for one URL at most one succeeded, so calls for distinct URLs all
\* succeed and the registry holds exactly their monitors.
C21_ConcurrentAddsAsIfSerial ==
  (Alive /\ NoRemoval) =>
    \A t \in Callers : (Added(t) /\ ValidAdd(t)) =>
      /\ tasks[t].err \in {"", ErrExists}
      /\ tasks[t].err = "" => Lookup(AddedURL(t)) = {tasks[t].m}
      /\ tasks[t].err = ErrExists => Lookup(AddedURL(t)) # {}
      /\ \A u \in Callers \ {t} :
           (Added(u) /\ ValidAdd(u) /\ AddedURL(u) = AddedURL(t))
             => ~(tasks[t].err = "" /\ tasks[u].err = "")

\* two callers have added different monitors for one URL: one succeeded, the
\* other was refused
C21_Witness ==
  /\ Alive /\ NoRemoval
  /\ Added("c1") /\ Added("c2")
  /\ tasks["c1"].op = "AddMonitorWithConfig" /\ tasks["c2"].op = "AddMonitorWithConfig"
  /\ tasks["c1"].m # tasks["c2"].m
  /\ AddedURL("c1") = AddedURL("c2")
  /\ tasks["c1"].err = ErrExists /\ tasks["c2"].err = ""
  /\ monitors = {tasks["c2"].m}

\* a mutating call between its Lock and its Unlock; a read between its RLock
\* and its RUnlock; a task writing, or about to write, the Monitors of g
Mutators == {"AddMonitor", "AddMonitorWithConfig", "RemoveMonitor", "CreateGroup", "AddToGroup"}
InMutation(t) ==
  /\ tasks[t].op \in Mutators
  /\ tasks[t].pc \in {"check", "insert", "create", "join", "remove", "groups", "unlock"}
Reading(t) == tasks[t].pc = "read"
MutatesMembers(t, g) ==
  \/ /\ tasks[t].op = "AddToGroup" /\ tasks[t].pc = "join"
     /\ tasks[t].g = g /\ g \in DOMAIN groups /\ Lookup(tasks[t].url) # {}
  \/ tasks[t].op = "RemoveMonitor" /\ tasks[t].pc = "groups" /\ g \in DOMAIN groups

\* C22: the mutations exclude each other and the reads: while a mutating
\* call is under way, no other mutating call is, no GetMonitor, GetGroup,
\* ListMonitors or ListGroups is reading, and no caller is reading the
\* Monitors of a group it got from GetGroup that the mutation writes.
C22_MutationsExclusive ==
  \A t \in Callers, u \in Callers :
    (t # u /\ InMutation(t)) =>
      /\ ~InMutation(u)
      /\ ~Reading(u)
      /\ ~(u \in Users(tasks[u].g) /\ MutatesMembers(t, tasks[u].g))


\* goroutine id holds the manager's lock or a monitor's lock, to write or to
\* read
HoldsLock(id) ==
  \/ locks.mgr.w = id
  \/ id \in locks.mgr.r
  \/ \E m \in URLs : locks.mon[m].w = id \/ id \in locks.mon[m].r

\* the run goroutine is in the HTTP fetch, asleep between two attempts, or
\* blocked in the send to m.changes; the forwarder is blocked in the send to
\* the shared channel
Blocking(m, k) == run[m][k].pc \in {"fetch", "sleep", "send"}
Forwarding(m, f) == fwd[m][f].pc = "select"

\* C23: no goroutine that is fetching, sleeping between retries or blocked in
\* a channel send holds the monitor's lock or the manager's lock.
C23_NoLockWhileBlocked ==
  \A m \in URLs, k \in Slots :
    /\ Blocking(m, k) => ~HoldsLock(Runner(m, k))
    /\ Forwarding(m, k) => ~HoldsLock(Forwarder(m, k))

\* the run goroutine is blocked in its send and the forwarder in its own,
\* while Manager.Stop holds the manager's lock and GetStatus the monitor's
C23_Witness ==
  /\ Alive
  /\ run["a"][1].pc = "send"
  /\ fwd["a"][1].pc = "select"
  /\ locks.mgr.w = Caller("c1")
  /\ Caller("c2") \in locks.mon["a"].r


\* the filters of a monitor were applied to a content
Applied == ret.op = "Apply"

\* the first n filters of l one after the other: filter i is applied to what
\* filter i - 1 returned
RECURSIVE Composed(_, _, _)
Composed(l, n, content) ==
  IF n = 0 THEN content ELSE RegexFilterApply(l[n], Composed(l, n - 1, content))

\* l with its filters in the opposite order
Reversed(l) == [i \in 1..Len(l) |-> l[Len(l) + 1 - i]]

\* C31: ContentFilterList.Apply is the composition of its filters from the
\* first to the last, and the empty list returns the content as it is.
C31_ApplyComposes ==
  Applied =>
    /\ ret.val[2] = Composed(DetCfg.filters, Len(DetCfg.filters), ret.val[1])
    /\ DetCfg.filters = <<>> => ret.val[2] = ret.val[1]

\* "a" removed and then replaced by "xx" was applied to "a": nothing is
\* left, where the filters in the opposite order leave "xx"
C31_Witness ==
  /\ Applied
  /\ DetCfg.filters = <<Drop, Widen>>
  /\ ret.val[1] = <<97>>
  /\ ret.val[2] = <<>>
  /\ Composed(Reversed(DetCfg.filters), 2, ret.val[1]) = <<120, 120>>


\* C32: no sequence of StartMonitor, StartGroup, StopMonitor, StopGroup and
\* RemoveMonitor calls ends in a runtime fault: no call closes the stop
\* channel of a monitor that was stopped before.
C32_StopNeverFaults == fault # "close of closed stop"


\* C33: a monitor whose context has been cancelled begins no check cycle:
\* its cycle counter stays as it is.
C33_NoCycleAfterCancel ==
  [][\A m \in URLs : ctxDone[m] => checkCount'[m] = checkCount[m]]_vars


\* C34: Manager.Stop cancels every registered monitor and closes the shared
\* channel, and once the channel is closed the application receives no event
\* from it and its loop over the channel ends: the process goes on past the
\* close.
C34_StopClosesStream ==
  /\ [][StopLocked => (fault' = "none" /\ changeChannelClosed'
                         /\ \A m \in monitors : ctxDone'[m])]_vars
  /\ [][changeChannelClosed => (delivered' = delivered /\ fault' = "none")]_vars


\* C35: the shared channel carries exactly the monitors' events.  What a
\* forwarder takes is the event a run goroutine of its monitor is sending,
\* made by that goroutine's cycle, and the goroutine hands it over once; what
\* the application receives is the event the forwarder holds, and the
\* forwarder holds it no longer; and with Manager.Stop never called and the
\* application receiving, every event a run goroutine sends is taken and
\* every event a forwarder holds is delivered.
C35_FanInExact ==
  /\ [][\A m \in URLs, f \in Slots :
          /\ (fwd[m][f].pc = "recv" /\ fwd'[m][f].pc = "select")
               => \E k \in Slots : /\ run[m][k].pc = "send" /\ run'[m][k].pc # "send"
                                   /\ run[m][k].change.cycle = run[m][k].cycle
                                   /\ fwd'[m][f].change = run[m][k].change
          /\ delivered'[m] # delivered[m]
               => \E g \in Slots : /\ fwd[m][g].pc = "select" /\ fwd'[m][g].pc # "select"
                                   /\ delivered'[m] = fwd[m][g].change.cycle]_vars
  /\ \A m \in URLs, k \in Slots :
       /\ (run[m][k].pc = "send") ~> (run[m][k].pc # "send")
       /\ (fwd[m][k].pc = "select") ~> (fwd[m][k].pc # "select")


BetweenCycles(m) == \A k \in Slots : ~CycleInProgress(m, k)

\* C36: between the check cycles of a monitor its first-check flag is set
\* exactly when it has no baseline.  The baseline is only ever stored, for
\* the first time, by the detectChange of a cycle whose fetch succeeded while
\* the flag is set, the flag is only ever cleared by the second lock region
\* of such a cycle, and a cycle that fails changes neither.
C36_FlagIffNoBaseline ==
  /\ [](\A m \in URLs : BetweenCycles(m) => (isFirstCheck[m] <=> lastContent[m] = Nil))
  /\ [][\A m \in URLs :
          /\ (lastContent[m] = Nil) # (lastContent'[m] = Nil)
               => /\ lastContent[m] = Nil /\ isFirstCheck[m]
                  /\ \E k \in Slots : run[m][k].pc = "detect" /\ run'[m][k].pc = "finish"
          /\ isFirstCheck'[m] # isFirstCheck[m]
               => /\ isFirstCheck[m] /\ lastContent[m] # Nil
                  /\ \E k \in Slots : run[m][k].pc = "finish" /\ run'[m][k].pc # "finish"
          /\ \A k \in Slots :
               (run[m][k].pc \in {"fetch", "sleep"} /\ run'[m][k].pc \in {"sleep", "send"})
                 => /\ isFirstCheck'[m] = isFirstCheck[m]
                    /\ lastContent'[m] = lastContent[m]]_vars

\* between cycles: a monitor whose first cycle failed and whose second cycle
\* stored the baseline and cleared the flag
C36_Witness ==
  \E m \in Direct :
    /\ BetweenCycles(m) /\ checkCount[m] = 2 /\ SpawnCount({m}) = 1
    /\ ~run[m][1].failed /\ run[m][1].pc = "select"
    /\ ~isFirstCheck[m] /\ lastContent[m] # Nil
    /\ config[m].RetryCount = 0


\* C37: after every sequence of AddMonitor, AddMonitorWithConfig,
\* RemoveMonitor, CreateGroup and AddToGroup calls each member of a group is
\* a registered monitor, it is the monitor the registry holds for its URL,
\* and a group has one member for a URL at most.
C37_MembersRegistered ==
  \A g \in DOMAIN groups :
    \A m \in groups[g].Monitors :
      /\ m \in monitors
      /\ Lookup(config[m].URL) = {m}
      /\ \A x \in groups[g].Monitors : config[x].URL = config[m].URL => x = m

\* monitor a was removed, its URL was registered again with monitor b, and
\* AddToGroup of the URL has made b a member
C37_Witness ==
  /\ ret = Ret("AddToGroup", "", <<>>)
  /\ config["a"].URL = "a" /\ config["b"].URL = "a"
  /\ "a" \notin monitors /\ stopClosed["a"] /\ "b" \in monitors
  /\ \E g \in DOMAIN groups : groups[g].Monitors = {"b"}


\* C38: when detectChange, with any method, reports no change for a monitor
\* that has a baseline, the baseline afterwards is the one the call found,
\* byte for byte, also when the content differs from it in bytes the filters
\* or the normalization hide; and a call changes the baseline only to the
\* content it was called with, at the first observation or when it reports a
\* change.
C38_UnchangedKeepsBaseline ==
  /\ [](Detected /\ HadBaseline /\ ~DetCall.changed => lastContent["a"] = DetCall.baseline)
  /\ [][lastContent'["a"] # lastContent["a"]
          => /\ ret'.op = "detectChange"
             /\ lastContent'["a"] = Some(ret'.val[1].content)
             /\ ret'.val[1].baseline = lastContent["a"]
             /\ lastContent["a"] = Nil \/ ret'.val[1].changed]_vars

\* no change was reported for a content that differs from the baseline in
\* bytes the normalization hides, and the baseline stayed
C38_Witness ==
  /\ Detected /\ HadBaseline /\ ~DetCall.changed
  /\ DetCfg.Method = MethodHash /\ DetCfg.NormalizeWhitespace
  /\ DetCall.content # Bytes(DetCall.baseline)
  /\ lastContent["a"] = DetCall.baseline


\* the fields of a content: its longest runs of bytes that are no whitespace
RECURSIVE FieldsFrom(_, _, _)
FieldsFrom(s, i, cur) ==
  IF i > Len(s) THEN (IF cur = <<>> THEN <<>> ELSE <<cur>>)
  ELSE IF IsSpace(s[i]) THEN (IF cur = <<>> THEN <<>> ELSE <<cur>>) \o FieldsFrom(s, i + 1, <<>>)
  ELSE FieldsFrom(s, i + 1, Append(cur, s[i]))

\* two contents that differ, and in whitespace only
WhitespaceApart(x, y) == x # y /\ FieldsFrom(x, 1, <<>>) = FieldsFrom(y, 1, <<>>)

\* the configured filters in their order, then the timestamp filter when
\* timestamps are ignored
Filtered(cfg, c) ==
  LET l == cfg.ContentFilters \o (IF cfg.IgnoreTimestamps THEN <<TimestampFilter>> ELSE <<>>)
  IN Composed(l, Len(l), c)

\* and then the whitespace normalization when it is configured
Transformed(cfg, c) ==
  IF cfg.NormalizeWhitespace THEN normalizeContent(cfg, Filtered(cfg, c)) ELSE Filtered(cfg, c)

\* detectChange returned what its method makes of the transformed baseline
\* and the transformed content
ComparesTransformed ==
  LET r == MethodChanged(DetCfg, Transformed(DetCfg, Bytes(DetCall.baseline)),
                         Transformed(DetCfg, DetCall.content))
  IN DetCall.changed = r.changed /\ DetCall.details = r.details

BuiltIn == DetCfg.Method \in {MethodHash, MethodLength}

\* C39: a detectChange call of a monitor that has a baseline compares the
\* baseline and the content after the same transformation (the configured
\* filters in order, the timestamp filter if timestamps are ignored, the
\* whitespace normalization if configured); and a content that differs from
\* the baseline in whitespace only is unchanged for the methods Hash and
\* Length with the normalization, and changed for Hash without it.
C39_SameTransformation ==
  HadBaseline =>
    /\ ComparesTransformed
    /\ WhitespaceApart(Bytes(DetCall.baseline), DetCall.content)
         => /\ (DetCfg.NormalizeWhitespace /\ BuiltIn) => ~DetCall.changed
            /\ (~DetCfg.NormalizeWhitespace /\ DetCfg.Method = MethodHash) => DetCall.changed

\* C39, amended: the same, for a content whose filtered form differs from
\* the filtered baseline in whitespace only (a filter may take out or
\* rewrite the whitespace before the normalization sees it).
C39_SameTransformationOfFiltered ==
  HadBaseline =>
    /\ ComparesTransformed
    /\ WhitespaceApart(Filtered(DetCfg, Bytes(DetCall.baseline)), Filtered(DetCfg, DetCall.content))
         => /\ (DetCfg.NormalizeWhitespace /\ BuiltIn) => ~DetCall.changed
            /\ (~DetCfg.NormalizeWhitespace /\ DetCfg.Method = MethodHash) => DetCall.changed

\* with a filter and the normalization, no change was reported for a
\* content whose filtered form differs from the filtered baseline in
\* whitespace only
C39_Witness ==
  /\ HadBaseline /\ DetCfg.Method = MethodHash /\ DetCfg.NormalizeWhitespace
  /\ DetCfg.ContentFilters = <<Widen>>
  /\ WhitespaceApart(Filtered(DetCfg, Bytes(DetCall.baseline)), Filtered(DetCfg, DetCall.content))
  /\ ~DetCall.changed


\* the first index at which two buffers differ, or the length of the
\* shorter one when it is a prefix of the other
DiffIndex(old, new) ==
  IF FirstDiff(old, new) >= 0 THEN FirstDiff(old, new) ELSE Min(Len(old), Len(new))

\* at most ContextLen bytes before index i and ContextLen bytes from it on
Excerpt(buf, i) == Slice(buf, Max(i - ContextLen, 0), Min(i + ContextLen, Len(buf)))

\* C40: when Hash-method detectChange reports a change, its details hold
\* the difference index of the baseline and the content as they were stored
\* and fetched, before filters and normalization, with the excerpts of the
\* two around that index; and the message for no specific difference is
\* only made for two identical buffers.
C40_DiffOverRawBuffers ==
  (HadBaseline /\ DetCfg.Method = MethodHash /\ DetCall.changed)
    => LET old == Bytes(DetCall.baseline)
           new == DetCall.content
       IN /\ DetCall.details = NoDiffFound => old = new
          /\ old # new
               => /\ DetCall.details.kind = "diff"
                  /\ DetCall.details.pos = DiffIndex(old, new)
                  /\ DetCall.details.old = Excerpt(old, DiffIndex(old, new))
                  /\ DetCall.details.new = Excerpt(new, DiffIndex(old, new))

====
